---- MODULE Spec2Model ----
(***************************************************************************)
(* A model of tool-sandbox (createSandbox / execute.handler): the tool     *)
(* registry, the persistent store with its _prev slot, and the host/guest  *)
(* bridge of one execution (tool() calls, the event pipeline, the          *)
(* serialised resolution queue, the polling loop and the teardown).        *)
(*                                                                         *)
(* One action is one synchronous run of host code between two suspension   *)
(* points of the JavaScript event loop.                                    *)
(***************************************************************************)
EXTENDS Integers, Sequences, FiniteSets, TLC

\* ------------------------------------------------------------------ bounds
MaxTools == 2       \* length of options.tools given to createSandbox
MaxRegOps == 2      \* addTool / removeTool calls after construction
MaxExec == 1        \* executions of tool-calling programs on one sandbox
MaxRaceExec == 2    \* executions of racing programs on one sandbox
MaxStoreExec == 3   \* executions of store programs on one sandbox
MaxLiveRegOps == 1  \* addTool / removeTool calls while executions run
MaxPoll == 2        \* largest experimental_maxPollIterations handed in
MaxHostSets == 1    \* host assignments to sandbox.store
MaxBlobExec == 2    \* executions of the blob programs
MaxIntroExec == 2   \* executions that call the introspection tools
MaxQueueExec == 1   \* executions with two calls outstanding and callbacks
MaxLiveExec == 2    \* executions that run while the registry changes
MaxLivePoll == 3    \* experimental_maxPollIterations of that sandbox
MaxBlobPoll == 2    \* experimental_maxPollIterations of the blob sandbox

\* --------------------------------------------------------------- constants
DEFAULT_maxResultChars == 40000
DEFAULT_MAX_POLL_ITERATIONS == 500
CharCaps == {4, DEFAULT_maxResultChars}

\* ------------------------------------------------------------------ values
\* A JavaScript value: t is its type tag, p its primitive payload (a string
\* cut into pieces, so that messages can be built from a prefix and a name)
\* and m its own enumerable properties (object keys, array indices).
NoProps == [k \in {} |-> k]
Prim(t, p) == [t |-> t, p |-> p, m |-> NoProps]
Undefined == Prim("undefined", <<>>)
Null == Prim("null", <<>>)
NaN == Prim("nan", <<>>)
BigInt1 == Prim("bigint", <<"1n">>)
Num(n) == Prim("number", <<n>>)      \* n is the numeral, a string
Str(s) == Prim("string", s)
Bool(b) == Prim("boolean", <<b>>)    \* b is "true" or "false"
Obj(m) == [t |-> "object", p |-> <<>>, m |-> m]
Arr(m) == [t |-> "array", p |-> <<>>, m |-> m]
Field(k, v) == [x \in {k} |-> v]
EmptyObj == Obj(NoProps)

\* m with key k set to v (an own-property assignment).
SetProp(m, k, v) == [x \in (DOMAIN m) \cup {k} |-> IF x = k THEN v ELSE m[x]]
\* m without key k (delete m[k]).
DelProp(m, k) == [x \in (DOMAIN m) \ {k} |-> m[x]]

\* JSON.stringify throws on a BigInt anywhere in the value.
RECURSIVE Stringifiable(_)
Stringifiable(v) ==
    /\ v.t # "bigint"
    /\ \A k \in DOMAIN v.m : Stringifiable(v.m[k])

\* JSON.parse(JSON.stringify(v)) for a value whose text exists: NaN becomes
\* null, an undefined property is dropped, an undefined array element
\* becomes null.
RECURSIVE JsonRoundTrip(_)
JsonRoundTrip(v) ==
    CASE v.t = "nan" -> Null
      [] v.t = "object" ->
            Obj([k \in {x \in DOMAIN v.m : v.m[x].t # "undefined"} |->
                    JsonRoundTrip(v.m[k])])
      [] v.t = "array" ->
            Arr([k \in DOMAIN v.m |->
                    IF v.m[k].t = "undefined" THEN Null ELSE JsonRoundTrip(v.m[k])])
      [] OTHER -> v

\* vm.evalCode of a JSON text as JavaScript source: the value the text
\* denotes, but for the key "__proto__" of an object literal, which sets the
\* prototype of the object and makes no own property.
RECURSIVE EvalLiteral(_)
EvalLiteral(v) ==
    CASE v.t = "object" ->
            Obj([k \in (DOMAIN v.m) \ {"__proto__"} |-> EvalLiteral(v.m[k])])
      [] v.t = "array" -> Arr([k \in DOMAIN v.m |-> EvalLiteral(v.m[k])])
      [] OTHER -> v

\* A value JSON can represent: the round trip leaves it as it is.
JsonRepresentable(v) == v.t # "undefined" /\ Stringifiable(v) /\ JsonRoundTrip(v) = v

\* A message built from a fixed text and a name, as a template literal does.
Msg(text, name) == <<text, name>>

\* ---------------------------------------------------------------- registry
\* The names a host may give its own tools. "sleep" is also a built-in and
\* "execute" is the name of the sandbox's own tool.
UserNames == {"t1", "sleep", "execute"}
BuiltinNames == <<"describe_tool", "list_tools", "sleep", "get_blob">>
ReservedNames == {"execute", "describe_tool", "list_tools", "sleep", "get_blob"}

\* A registry entry: builtin tells the four tools createSandbox appends from
\* the tools the host supplied.
UserTool(n) == [name |-> n, builtin |-> FALSE]
BuiltinTool(n) == [name |-> n, builtin |-> TRUE]
ToolLists == UNION {[1..n -> UserNames] : n \in 0..MaxTools}

Range(s) == {s[i] : i \in DOMAIN s}
NamesOf(ts) == [i \in DOMAIN ts |-> ts[i].name]

\* The index at which the validation loop of createSandbox throws: the first
\* name already in the set of names seen; 0 when the loop completes.
FirstDuplicate(ns) ==
    LET dups == {i \in DOMAIN ns : \E j \in 1..(i - 1) : ns[j] = ns[i]}
    IN IF dups = {} THEN 0 ELSE CHOOSE i \in dups : \A j \in dups : i <= j

\* tools.findIndex((t) => t.name === name): 0 stands for -1.
FindIndex(ts, n) ==
    LET hits == {i \in DOMAIN ts : ts[i].name = n}
    IN IF hits = {} THEN 0 ELSE CHOOSE i \in hits : \A j \in hits : i <= j

\* tools.splice(index, 1)
Splice(ts, i) == [j \in 1..(Len(ts) - 1) |-> IF j < i THEN ts[j] ELSE ts[j + 1]]

\* The fixed text of the execute description, as the words of it that can be
\* a tool's name: the usage preamble tells the guest to "use tool('get_blob',
\* {id})" and to "Call tool('describe_tool', {name})", and the example after
\* the list calls describe_tool and two placeholder tools.
UsagePreamble == <<"get_blob", "describe_tool", "Available tools:">>
UsageExample == <<"Example", "describe_tool", "calendar__list", "calendar__events">>

\* The names of the model in the order JavaScript compares strings.
NameOrder == <<"describe_tool", "execute", "get_blob", "list_tools", "sleep", "t1">>
Rank(n) == CHOOSE k \in DOMAIN NameOrder : NameOrder[k] = n

\* A description whose list is toolNames.sort().join(', ').
generateExecuteDescription_Sorted(toolNames) ==
    UsagePreamble \o SortSeq(toolNames, LAMBDA a, b : Rank(a) < Rank(b)) \o UsageExample

\* generateExecuteDescription(toolNames): the preamble, the line
\* "Available tools: ${toolNames.join(', ')}" with the names in the order of
\* the join, then the example.
generateExecuteDescription(toolNames) == UsagePreamble \o toolNames \o UsageExample

VARIABLES
    phase,        \* "new", "ready" (createSandbox returned) or "failed" (it threw)
    optionsTools, \* options.tools as handed to createSandbox: the names
    ctorError,    \* the message createSandbox threw with
    opts,         \* the options: maxPollIterations, maxResultChars, and whether
                  \* the three callbacks (onBeforeToolCall, ...) are given
    tools,        \* the registry, user tools then built-ins
    description,  \* execute.description
    lastOp,       \* the last addTool / removeTool call and how it ended
    regOps        \* addTool / removeTool calls so far

regVars == <<phase, optionsTools, ctorError, opts, tools, description, lastOp, regOps>>

NoOp == [op |-> "none", name |-> "", error |-> <<>>]

InitRegistry ==
    /\ phase = "new"
    /\ optionsTools = <<>>
    /\ ctorError = <<>>
    /\ opts = [maxPollIterations |-> 0, maxResultChars |-> 0, hooks |-> FALSE]
    /\ tools = <<>>
    /\ description = <<>>
    /\ lastOp = NoOp
    /\ regOps = 0

\* createSandbox(options): validation of options.tools, then the built-ins
\* are pushed and the execute tool is described.
createSandbox(ts, maxPoll, maxChars, hooks) ==
    /\ phase = "new"
    /\ optionsTools' = ts
    /\ LET dup == FirstDuplicate(ts)
           all == [i \in DOMAIN ts |-> UserTool(ts[i])]
                      \o [i \in DOMAIN BuiltinNames |-> BuiltinTool(BuiltinNames[i])]
       IN IF dup # 0
          THEN /\ phase' = "failed"
               /\ ctorError' = Msg("Duplicate tool name: ", ts[dup])
               /\ UNCHANGED <<opts, tools, description>>
          ELSE /\ phase' = "ready"
               /\ opts' = [maxPollIterations |-> maxPoll, maxResultChars |-> maxChars,
                           hooks |-> hooks]
               /\ tools' = all
               /\ description' = generateExecuteDescription(NamesOf(all))
               /\ UNCHANGED ctorError
    /\ UNCHANGED <<lastOp, regOps>>

\* addTool without the lookup of the name: the tool is always pushed.
addTool_Unchecked(n) ==
    /\ phase = "ready"
    /\ regOps < MaxRegOps
    /\ regOps' = regOps + 1
    /\ tools' = Append(tools, UserTool(n))
    /\ description' = generateExecuteDescription(NamesOf(tools'))
    /\ lastOp' = [op |-> "addTool", name |-> n, error |-> <<>>]
    /\ UNCHANGED <<phase, optionsTools, ctorError, opts>>

\* sandbox.addTool(tool)
addTool(n) ==
    /\ phase = "ready"
    /\ regOps < MaxRegOps
    /\ regOps' = regOps + 1
    /\ IF \E i \in DOMAIN tools : tools[i].name = n
       THEN /\ lastOp' = [op |-> "addTool", name |-> n,
                          error |-> Msg("Duplicate tool name: ", n)]
            /\ UNCHANGED <<tools, description>>
       ELSE /\ tools' = Append(tools, UserTool(n))
            /\ description' = generateExecuteDescription(NamesOf(tools'))
            /\ lastOp' = [op |-> "addTool", name |-> n, error |-> <<>>]
    /\ UNCHANGED <<phase, optionsTools, ctorError, opts>>

\* sandbox.removeTool(name)
removeTool(n) ==
    /\ phase = "ready"
    /\ regOps < MaxRegOps
    /\ regOps' = regOps + 1
    /\ LET index == FindIndex(tools, n)
       IN IF index = 0
          THEN /\ lastOp' = [op |-> "removeTool", name |-> n,
                             error |-> Msg("Tool not found: ", n)]
               /\ UNCHANGED <<tools, description>>
          ELSE /\ tools' = Splice(tools, index)
               /\ description' = generateExecuteDescription(NamesOf(tools'))
               /\ lastOp' = [op |-> "removeTool", name |-> n, error |-> <<>>]
    /\ UNCHANGED <<phase, optionsTools, ctorError, opts>>

\* The names removeTool is called with: the host's names and a built-in.
RemoveNames == UserNames \cup {"get_blob"}

\* ------------------------------------------------------------ sandbox state
VARIABLES
    store,           \* `store` of createSandbox: the host-visible mapping
    prevResult,      \* `prevResult`: the last fulfilled execution's value
    blobStore,       \* `blobStore`: the Map of lifted blobs, in insertion order
    ex,              \* the executions: the locals of each executeCode call
    inv,             \* the tool() invocations, in call order
    hostSets,        \* host assignments to sandbox.store so far
    fulfilled,       \* the executions that fulfilled, in the order they did
    lastAssign       \* how many had fulfilled at the last host assignment

vars == <<phase, optionsTools, ctorError, opts, tools, description, lastOp, regOps,
          store, prevResult, blobStore, ex, inv, hostSets, fulfilled, lastAssign>>
execVars == <<store, prevResult, blobStore, ex, inv, hostSets, fulfilled, lastAssign>>

Execs == 1..(IF MaxExec > MaxStoreExec THEN MaxExec ELSE MaxStoreExec)

\* What the host's callbacks and handlers hand back.
ReturnValue == Obj(Field("cached", Bool("true")))     \* event.returnValue
SuccessResult == Str(<<"changed by onToolCallSuccess">>)
RecoveredResult == Obj(Field("recovered", Bool("true")))
MutatedArgs == Obj(Field("a", Num("7")))
Image == Obj([k \in {"type", "data", "mimeType"} |->
                CASE k = "type" -> Str(<<"image">>)
                  [] k = "data" -> Str(<<"AAAA">>)
                  [] OTHER -> Str(<<"image/png">>)])
ProtoResult == Obj(Field("__proto__", Obj(Field("a", Num("1")))))
Pdf == Obj([k \in {"blob", "mimeType"} |->
              IF k = "blob" THEN Str(<<"BBBB">>) ELSE Str(<<"application/pdf">>)])
\* The results of the tool of the blob programs: a payload of each shape.
BlobResults == {Image, Pdf}
\* The results onToolCallError sets to recover.
RecoveredResults == {RecoveredResult, Image}
\* An MCP tool result: {content: [{type: 'image', ...}]}
Content == Obj(Field("content", Arr(Field("0", Image))))
ToolResults == {Num("5"), Image, ProtoResult, Content, BigInt1}
BlockedMsg == <<"Blocked">>
CallbackMsg == <<"callback failed">>
HandlerMsg == <<"Intentional failure">>
GuestMsg == <<"oops">>
\* What the guest throws: a string here stands for an Error with that
\* message, as `new Error(...)` and vm.newError(...) make it.
ThrownObject == Obj(Field("message", Arr(Field("0", Str(<<"x">>)))))
BlobIds == {"blob_aaaaaa", "blob_bbbbbb"}

\* The values a guest program writes and returns.
GuestValues == {Num("1"), Obj(Field("a", Num("1"))), Obj(Field("__proto__", Obj(Field("a", Num("1"))))),
                NaN, Undefined, Obj(Field("a", Undefined))}
\* The mappings a host assigns to sandbox.store.
HostStores == {Obj([k \in {"k", "_prev"} |-> Num("2")]), Obj(Field("k", BigInt1)),
               Obj(Field("__proto__", Obj(Field("a", Num("1")))))}
CallNames == {"t1", "sleep"}

NoSettle == [kind |-> "none", v |-> Undefined]
PendingState == [type |-> "pending", v |-> Undefined]
NoWait == [mode |-> "none", a |-> 0, b |-> 0]
NoResult == [keys |-> {}, success |-> FALSE, result |-> Undefined, error |-> <<>>,
             errorType |-> "undefined", blobs |-> <<>>]

IdleExec ==
    [id |-> 0, st |-> "idle", code |-> "", arg |-> Undefined, name |-> "",
     vmDisposed |-> FALSE, mainPromiseFulfilled |-> FALSE,
     resolveQueue |-> <<>>, queueRejected |-> FALSE, awaited |-> 0, pollIterations |-> 0,
     promiseState |-> PendingState,
     gstore |-> NoProps, gprev |-> Null, hydrated |-> NoProps,
     gpc |-> 1, acc |-> Undefined, wait |-> NoWait, slow |-> 0, sidePending |-> FALSE,
     sideEffect |-> FALSE, startTools |-> <<>>, preds |-> <<>>,
     acquired |-> {}, released |-> {}, twice |-> {}, assignedAt |-> 0, readBack |-> NoProps,
     result |-> NoResult]

InitExec ==
    /\ store = EmptyObj
    /\ prevResult = Undefined
    /\ blobStore = <<>>
    /\ ex = [e \in Execs |-> [IdleExec EXCEPT !.id = e]]
    /\ inv = <<>>
    /\ hostSets = 0
    /\ fulfilled = <<>>
    /\ lastAssign = 0

\* The invocations of execution e, in call order: its pendingPromises.
pendingPromises(invs, e) == SelectSeq([i \in DOMAIN invs |-> i], LAMBDA i : invs[i].exec = e)

\* ----------------------------------------------------------- blob extractor
IsString(v) == v.t = "string"
Has(v, k) == k \in DOMAIN v.m
IsMedia(v) ==
    /\ v.t \in {"object", "array"}
    /\ Has(v, "type") /\ v.m["type"] \in {Str(<<"image">>), Str(<<"audio">>)}
    /\ Has(v, "data") /\ IsString(v.m["data"])
    /\ Has(v, "mimeType") /\ IsString(v.m["mimeType"])
IsResourceBlob(v) ==
    /\ v.t \in {"object", "array"}
    /\ Has(v, "blob") /\ IsString(v.m["blob"])
    /\ Has(v, "mimeType") /\ IsString(v.m["mimeType"])

\* blobStore.set(id, blob) on a Map kept as its entries in insertion order.
MapSet(bs, blob) ==
    IF \E i \in DOMAIN bs : bs[i].id = blob.id
    THEN [i \in DOMAIN bs |-> IF bs[i].id = blob.id THEN blob ELSE bs[i]]
    ELSE Append(bs, blob)
BlobRef(id, mime) ==
    Obj([k \in {"type", "id", "mimeType"} |->
            CASE k = "type" -> Str(<<"blob_ref">>)
              [] k = "id" -> Str(<<id>>)
              [] OTHER -> mime])

\* The keys of the model's objects in the order Object.entries walks them.
KeyOrder == <<"0", "1", "2", "3", "4", "5", "6", "__proto__", "type", "data", "blob", "mimeType",
              "id", "a", "k", "cached", "recovered", "slept", "ms", "error", "name",
              "description", "inputSchema", "outputSchema", "_prev", "modified", "content">>
KeysOf(v) == SelectSeq(KeyOrder, LAMBDA k : k \in DOMAIN v.m)

\* How many payloads extractBlobs lifts from v: the ids it draws.
RECURSIVE BlobCount(_)
RECURSIVE BlobCountIn(_, _)
BlobCount(v) ==
    IF v.t \notin {"object", "array"} THEN 0
    ELSE IF IsMedia(v) \/ IsResourceBlob(v) THEN 1
    ELSE BlobCountIn(v, KeysOf(v))
BlobCountIn(v, ks) ==
    IF ks = <<>> THEN 0 ELSE BlobCount(v.m[Head(ks)]) + BlobCountIn(v, Tail(ks))

\* extractBlobs(value, blobStore) with the ids generateBlobId() returns, in
\* the order of the calls: [v |-> the value with refs, bs |-> the Map, ids |-> unused ids].
RECURSIVE extractBlobs(_, _, _)
RECURSIVE extractProps(_, _, _, _, _)
extractBlobs(value, bs, ids) ==
    IF value.t \notin {"object", "array"} THEN [v |-> value, bs |-> bs, ids |-> ids]
    ELSE IF IsMedia(value)
    THEN [v |-> BlobRef(Head(ids), value.m["mimeType"]),
          bs |-> MapSet(bs, [id |-> Head(ids), data |-> value.m["data"],
                             mimeType |-> value.m["mimeType"]]),
          ids |-> Tail(ids)]
    ELSE IF IsResourceBlob(value)
    THEN [v |-> BlobRef(Head(ids), value.m["mimeType"]),
          bs |-> MapSet(bs, [id |-> Head(ids), data |-> value.m["blob"],
                             mimeType |-> value.m["mimeType"]]),
          ids |-> Tail(ids)]
    ELSE extractProps(value, KeysOf(value), NoProps, bs, ids)
extractProps(value, ks, done, bs, ids) ==
    IF ks = <<>>
    THEN [v |-> [t |-> value.t, p |-> <<>>, m |-> done], bs |-> bs, ids |-> ids]
    ELSE LET r == extractBlobs(value.m[Head(ks)], bs, ids)
         IN \* result[k] = ...: for k = "__proto__" the assignment sets the
            \* prototype of result and makes no own property
            extractProps(value, Tail(ks),
                         IF value.t = "object" /\ Head(ks) = "__proto__" THEN done
                         ELSE SetProp(done, Head(ks), r.v),
                         r.bs, r.ids)

IdSeqs(n) == [1..n -> BlobIds]

\* --------------------------------------------------------------- the bridge
\* What a host callback does when it is invoked: the callbacks are host code,
\* so each invocation draws its behaviour.
\*   onBeforeToolCall: "none", "throw", "args" (replaces event.args) or
\*                     "returnValue" (sets event.returnValue)
\*   onToolCallSuccess: "none", "set" (replaces event.result) or "throw"
\*   onToolCallError: "none", "recover" (sets event.result) or "throw"
Callbacks ==
    [before : {"none", "throw", "args"}, success : {"none"}, error : {"none"}]
    \cup [before : {"returnValue"}, success : {"none", "set", "throw"}, error : {"none"}]
DoneCallbacks ==
    [before : {"none"}, success : {"none", "set"}, error : {"none"}]
    \cup [before : {"none"}, success : {"none", "throw"}, error : {"none", "recover", "throw"}]
QuietCallback == [before |-> "none", success |-> "none", error |-> "none"]
\* options.onX?.(event): a callback that was not given is not invoked.
Invoked == IF opts.hooks THEN 1 ELSE 0

NewInvocation(e, name, guestArgs, args) ==
    [exec |-> e, toolName |-> name, guestArgs |-> guestArgs, args |-> args,
     found |-> FALSE, builtin |-> FALSE,
     st |-> "running", handlerCalls |-> 0, handlerArgs |-> Undefined,
     outcome |-> "none", handlerResult |-> Undefined, recovered |-> Undefined,
     late |-> FALSE, registry |-> tools, ahead |-> 0,
     nBefore |-> 0, nSuccess |-> 0, nError |-> 0,
     before |-> "none", success |-> "none", error |-> "none", successSaw |-> Undefined,
     liftIn |-> Undefined,
     pending |-> Undefined, settle |-> NoSettle, promise |-> PendingState]

\* A queue whose newest callback runs first.
Enqueue_Front(W, i, kind, v) ==
    [W EXCEPT !.inv[i].settle = [kind |-> kind, v |-> v],
              !.inv[i].st = "queued",
              !.inv[i].ahead = Len(W.x.resolveQueue),
              !.x.resolveQueue = <<i>> \o @]

\* resolveQueue = resolveQueue.then(...): invocation i joins the queue of its
\* execution with the settlement its callback will apply.
Enqueue(W, i, kind, v) ==
    [W EXCEPT !.inv[i].settle = [kind |-> kind, v |-> v],
              !.inv[i].st = "queued",
              !.inv[i].ahead = Len(W.x.resolveQueue),
              !.x.resolveQueue = Append(@, i)]

\* The synchronous part of a built-in handler: its result is computed when
\* the handler is called and delivered when the handler's promise fulfils.
BlobValue(b) ==
    Obj([k \in {"id", "data", "mimeType"} |->
            CASE k = "id" -> Str(<<b.id>>) [] k = "data" -> b.data [] OTHER -> b.mimeType])
\* `Blob not found: ${id}`
NotFoundMsg(id) == <<"Blob not found: ">> \o (IF id.t = "string" THEN id.p ELSE <<"undefined">>)
\* getBlobTool.handler: blobStore.get(id), read when the handler is called.
get_blob(bs, args) ==
    LET id == IF Has(args, "id") THEN args.m["id"] ELSE Undefined
        hits == {n \in DOMAIN bs : Str(<<bs[n].id>>) = id}
    IN IF hits = {} THEN Obj(Field("error", Str(NotFoundMsg(id))))
       ELSE BlobValue(bs[CHOOSE n \in hits : TRUE])
\* What a registry entry carries besides its name.
DescriptionOf(t) == Str(<<IF t.builtin THEN "built-in " ELSE "host's ", t.name>>)
InputSchemaOf(t) == Obj(Field("type", Str(<<"object">>)))
OutputSchemaOf(t) == Undefined
\* listToolsTool.handler: tools.map((t) => ({name: t.name, description: t.description}))
list_tools(ts) ==
    Arr([k \in {ToString(n - 1) : n \in DOMAIN ts} |->
            LET t == ts[CHOOSE n \in DOMAIN ts : ToString(n - 1) = k]
            IN Obj([f \in {"name", "description"} |->
                       IF f = "name" THEN Str(<<t.name>>) ELSE DescriptionOf(t)])])
\* describeTool.handler: tools.find((t) => t.name === name)
describe_tool(ts, args) ==
    LET name == IF Has(args, "name") THEN args.m["name"] ELSE Undefined
        index == IF name.t = "string" /\ Len(name.p) = 1 THEN FindIndex(ts, name.p[1]) ELSE 0
    IN IF index = 0
       THEN Obj(Field("error", Str(<<"Tool not found: ">>
                                     \o (IF name.t = "string" THEN name.p ELSE <<"undefined">>))))
       ELSE Obj([f \in {"name", "description", "inputSchema", "outputSchema"} |->
                   CASE f = "name" -> Str(<<ts[index].name>>)
                     [] f = "description" -> DescriptionOf(ts[index])
                     [] f = "inputSchema" -> InputSchemaOf(ts[index])
                     [] OTHER -> OutputSchemaOf(ts[index])])
BuiltinResult(bs, name, args) ==
    CASE name = "sleep" ->
            Obj(Field("slept", IF Has(args, "ms") THEN args.m["ms"] ELSE Undefined))
      [] name = "get_blob" -> get_blob(bs, args)
      [] name = "list_tools" -> list_tools(tools)
      [] name = "describe_tool" -> describe_tool(tools, args)
      [] OTHER -> Undefined

\* Argument marshalling of tool(): vm.dump(argsHandle) ?? {}
MarshalArgs(a) == IF a.t \in {"undefined", "null"} THEN EmptyObj ELSE JsonRoundTrip(a)

\* if (!tool) { resolveQueue = resolveQueue.then(... promise.reject(...)); return; }
NotFound(W, i, name) == Enqueue(W, i, "reject", Str(Msg("Tool not found: ", name)))

\* The handler called with the args the guest passed, not the event's.
CallHandler_GuestArgs(W, i, index, name, handlerArgs) ==
    [W EXCEPT !.inv[i].handlerCalls = @ + 1,
              !.inv[i].handlerArgs = W.inv[i].args,
              !.inv[i].pending = IF tools[index].builtin
                                 THEN BuiltinResult(W.blobStore, name, W.inv[i].args) ELSE Undefined]

\* const result = await tool.handler(beforeEvent.args): the handler is called; a built-in
\* computes its result at once.
CallHandler(W, i, index, name, handlerArgs) ==
    [W EXCEPT !.inv[i].handlerCalls = @ + 1,
              !.inv[i].handlerArgs = handlerArgs,
              !.inv[i].pending = IF tools[index].builtin
                                 THEN BuiltinResult(W.blobStore, name, handlerArgs) ELSE Undefined]

\* The catch block without its return: the task goes on to call the handler.
BeforeThrew_FallsThrough(W, i) ==
    CallHandler(Enqueue(W, i, "reject", Str(BlockedMsg)), i,
                FindIndex(tools, W.inv[i].toolName), W.inv[i].toolName, W.inv[i].args)

\* onBeforeToolCall threw: the catch block queues the rejection and returns.
BeforeThrew(W, i) == Enqueue(W, i, "reject", Str(BlockedMsg))

\* 'returnValue' in beforeEvent: onToolCallSuccess is invoked, outside any
\* try, with result = returnValue; the result it leaves is lifted and queued.
\* The values the callbacks set here hold no blob, so extractBlobs draws no id.
ShortCircuit(W, i, cb) ==
    LET W1 == [W EXCEPT !.inv[i].nSuccess = @ + Invoked,
                        !.inv[i].success = cb.success,
                        !.inv[i].successSaw = ReturnValue]
        result == IF cb.success = "set" THEN SuccessResult ELSE ReturnValue
        lifted == extractBlobs(result, W1.blobStore, <<>>)
    IN IF cb.success = "throw"
       THEN [W1 EXCEPT !.inv[i].st = "fault"]
       ELSE Enqueue([W1 EXCEPT !.blobStore = lifted.bs], i, "resolve", lifted.v)

\* A bridge that looks names up in the registry as it was when the execution
\* started.
LookupRegistry_Snapshot(x) == x.startTools

\* const tool = tools.find((t) => t.name === toolName): `tools` is the array
\* addTool pushes to and removeTool splices, read when the call is made.
LookupRegistry(x) == tools

\* The host function `tool` up to the first await of its async task: lookup,
\* onBeforeToolCall, then either a queued rejection, the short-circuit path or
\* the call of the handler.
ToolCall(W, name, guestArgs, cb) ==
    LET i == Len(W.inv) + 1
        args == MarshalArgs(guestArgs)
        index == FindIndex(LookupRegistry(W.x), name)
        W0 == [W EXCEPT !.inv = Append(@, NewInvocation(W.x.id, name, guestArgs, args))]
    IN IF index = 0
       THEN NotFound(W0, i, name)
       ELSE LET W1 == [W0 EXCEPT !.inv[i].found = TRUE,
                                 !.inv[i].builtin = tools[index].builtin,
                                 !.inv[i].nBefore = Invoked,
                                 !.inv[i].before = cb.before]
            IN CASE cb.before = "throw" -> BeforeThrew(W1, i)
                 [] cb.before = "returnValue" -> ShortCircuit(W1, i, cb)
                 [] OTHER -> CallHandler(W1, i, index, name,
                                         IF cb.before = "args" THEN MutatedArgs ELSE args)

\* ---------------------------------------------------------------- the guest
\* The guest programs, by name; ARG and NAME are drawn when the execution starts.
\*   ret       store.k = ARG; return ARG
\*   prev      store._prev = ARG; return store._prev
\*   throw     store.k = ARG; throw new Error('oops')
\*   syntax    return {
\*   call      return await tool(NAME, ARG)
\*   catch     try { return await tool(NAME, {}) } catch (e) { return e.message }
\*   fire      tool(NAME, {}); return ARG
\*   throwObj  store.k = ARG; throw {message: ['x']}
\*   tick      await null; store.k = ARG; return ARG
\*   early     store.k = ARG; await null; return ARG
\*   later     await null; return await tool(NAME, {})
\*   get       const a = await tool(NAME, {}); const b = await tool(NAME, {});
\*             return await tool('get_blob', {id: a.id})
\*   missing   return await tool('get_blob', {id: 'nonexistent'})
\*   race      store.modified = false;
\*             const fast = tool('sleep', {ms: 10}), slow = tool('sleep', {ms: 100});
\*             const r = await Promise.race([fast.then(() => 'fast'),
\*                 slow.then(() => { store.modified = true; return 'slow'; })]);
\*             return r
\*   raceJoin  as race, with `await slow;` before `return r`
\*   pair      const a = tool('sleep', {ms: 100}), b = tool('sleep', {ms: 10});
\*             await a; await b
GuestOp(op, k, src) == [op |-> op, k |-> k, src |-> src]
Program(code) ==
    CASE code = "ret" -> <<GuestOp("set", "k", "arg"), GuestOp("return", "", "arg")>>
      [] code = "prev" -> <<GuestOp("set", "_prev", "arg"), GuestOp("return", "", "prev")>>
      [] code = "throw" -> <<GuestOp("set", "k", "arg"), GuestOp("throw", "", "")>>
      [] code = "throwObj" -> <<GuestOp("set", "k", "arg"), GuestOp("throwObj", "", "")>>
      [] code = "call" -> <<GuestOp("await", "", "arg"), GuestOp("return", "", "acc")>>
      [] code = "catch" -> <<GuestOp("catch", "", "empty"), GuestOp("return", "", "acc")>>
      [] code = "fire" -> <<GuestOp("fire", "", "empty"), GuestOp("return", "", "arg")>>
      [] code = "tick" -> <<GuestOp("tick", "", ""), GuestOp("set", "k", "arg"),
                            GuestOp("return", "", "arg")>>
      [] code = "later" -> <<GuestOp("tick", "", ""), GuestOp("await", "", "empty"),
                             GuestOp("return", "", "acc")>>
      [] code = "early" -> <<GuestOp("set", "k", "arg"), GuestOp("tick", "", ""),
                             GuestOp("return", "", "arg")>>
      [] code = "get" -> <<GuestOp("await", "", "empty"), GuestOp("awaitKeep", "", "empty"),
                           GuestOp("getblob", "", "accId"), GuestOp("return", "", "acc")>>
      [] code = "missing" -> <<GuestOp("getblob", "", "nonexistent"), GuestOp("return", "", "acc")>>
      [] code = "race" -> <<GuestOp("set", "modified", "false"), GuestOp("race", "", ""),
                            GuestOp("return", "", "acc")>>
      [] code = "raceJoin" -> <<GuestOp("set", "modified", "false"), GuestOp("race", "", ""),
                                GuestOp("join", "", ""), GuestOp("return", "", "acc")>>
      [] code = "pair" -> <<GuestOp("pair", "", ""), GuestOp("join", "", ""),
                            GuestOp("return", "", "acc")>>
      [] OTHER -> <<>>
Codes == {"ret", "prev", "throw", "throwObj", "syntax", "call", "catch", "fire", "tick", "get", "missing",
          "race", "raceJoin", "pair", "early", "later"}
\* The values ARG is drawn from, by program.
ArgsOf(code) ==
    CASE code = "ret" -> GuestValues
      [] code = "tick" -> {Num("1"), EmptyObj}
      [] code = "prev" -> {Num("9")}
      [] code = "call" -> {Undefined, EmptyObj, Obj(Field("a", Num("1")))}
      [] code \in {"throw", "throwObj", "fire", "early"} -> {Num("1")}
      [] OTHER -> {Undefined}
UsesName(code) == code \in {"call", "catch", "fire", "get", "later"}
\* The tool() calls a program makes in all.
CallsOf(code) ==
    CASE code \in {"call", "catch", "fire", "missing", "later"} -> 1
      [] code \in {"race", "raceJoin", "pair"} -> 2
      [] code = "get" -> 3
      [] OTHER -> 0

Eval(x, src) ==
    CASE src = "arg" -> x.arg
      [] src = "acc" -> x.acc
      [] src = "prev" -> x.gprev
      [] src = "false" -> Bool("false")
      [] src = "empty" -> EmptyObj
      [] src = "accId" -> Obj(Field("id", IF Has(x.acc, "id") THEN x.acc.m["id"] ELSE Undefined))
      [] src = "nonexistent" -> Obj(Field("id", Str(<<"nonexistent">>)))
      [] OTHER -> Undefined

SleepArgs(ms) == Obj(Field("ms", Num(ms)))
Fulfilled(v) == [type |-> "fulfilled", v |-> v]
Rejected(v) == [type |-> "rejected", v |-> v]

\* The guest runs from its program counter until it suspends in an await or
\* its async function ends; cbs are the callback behaviours of its tool() calls.
RECURSIVE RunGuest(_, _)
RunGuest(W, cbs) ==
    LET x == W.x
        prog == Program(x.code)
    IN IF x.gpc > Len(prog)
       THEN [W EXCEPT !.x.promiseState = Fulfilled(Undefined), !.x.wait = NoWait]
       ELSE LET o == prog[x.gpc]
            IN CASE o.op = "set" ->
                      \* store._prev is not writable: the assignment is ignored
                      RunGuest([W EXCEPT !.x.gpc = @ + 1,
                                         !.x.gstore = IF o.k = "_prev" THEN @
                                                      ELSE SetProp(@, o.k, Eval(x, o.src))], cbs)
                 [] o.op = "return" ->
                      [W EXCEPT !.x.promiseState = Fulfilled(Eval(x, o.src)), !.x.wait = NoWait,
                                !.x.gpc = Len(prog) + 1]
                 [] o.op = "throw" ->
                      [W EXCEPT !.x.promiseState = Rejected(Str(GuestMsg)), !.x.wait = NoWait,
                                !.x.gpc = Len(prog) + 1]
                 [] o.op = "throwObj" ->
                      [W EXCEPT !.x.promiseState = Rejected(ThrownObject), !.x.wait = NoWait,
                                !.x.gpc = Len(prog) + 1]
                 [] o.op \in {"await", "catch"} ->
                      LET W1 == ToolCall(W, x.name, Eval(x, o.src), Head(cbs))
                      IN [W1 EXCEPT !.x.wait = [mode |-> o.op, a |-> Len(W1.inv), b |-> 0]]
                 [] o.op = "awaitKeep" ->
                      LET W1 == ToolCall(W, x.name, Eval(x, o.src), Head(cbs))
                      IN [W1 EXCEPT !.x.wait = [mode |-> "join", a |-> Len(W1.inv), b |-> 0]]
                 [] o.op = "getblob" ->
                      LET W1 == ToolCall(W, "get_blob", Eval(x, o.src), Head(cbs))
                      IN [W1 EXCEPT !.x.wait = [mode |-> "await", a |-> Len(W1.inv), b |-> 0]]
                 [] o.op = "fire" ->
                      RunGuest([ToolCall(W, x.name, Eval(x, o.src), Head(cbs))
                                    EXCEPT !.x.gpc = @ + 1],
                               Tail(cbs))
                 [] o.op = "tick" ->
                      [W EXCEPT !.x.wait = [mode |-> "job", a |-> 0, b |-> 0]]
                 [] o.op = "race" ->
                      LET W1 == ToolCall(W, "sleep", SleepArgs("10"), Head(cbs))
                          W2 == ToolCall(W1, "sleep", SleepArgs("100"), Head(Tail(cbs)))
                      IN [W2 EXCEPT !.x.wait = [mode |-> "race", a |-> Len(W1.inv), b |-> Len(W2.inv)],
                                    !.x.slow = Len(W2.inv),
                                    !.x.sidePending = TRUE]
                 [] o.op = "pair" ->
                      LET W1 == ToolCall(W, "sleep", SleepArgs("100"), Head(cbs))
                          W2 == ToolCall(W1, "sleep", SleepArgs("10"), Head(Tail(cbs)))
                      IN [W2 EXCEPT !.x.wait = [mode |-> "join", a |-> Len(W1.inv), b |-> 0],
                                    !.x.slow = Len(W2.inv)]
                 [] o.op = "join" ->
                      LET p == W.inv[x.slow].promise
                      IN CASE p.type = "fulfilled" -> RunGuest([W EXCEPT !.x.gpc = @ + 1], cbs)
                           [] p.type = "rejected" ->
                                [W EXCEPT !.x.promiseState = Rejected(p.v), !.x.wait = NoWait,
                                          !.x.gpc = Len(prog) + 1]
                           [] OTHER -> [W EXCEPT !.x.wait = [mode |-> "join", a |-> x.slow, b |-> 0]]
                 [] OTHER -> W

\* The guest resumes after an await: with the value v, or with the rejection
\* thrown at the await when it is not inside a try.
Resume(W, p, keep, caught, cbs) ==
    IF p.type = "fulfilled" \/ caught
    THEN RunGuest([W EXCEPT !.x.gpc = @ + 1, !.x.wait = NoWait,
                            !.x.acc = IF keep THEN @ ELSE p.v], cbs)
    ELSE [W EXCEPT !.x.promiseState = Rejected(p.v), !.x.wait = NoWait,
                   !.x.gpc = Len(Program(W.x.code)) + 1]

\* The jobs the guest runs once the guest promise of invocation i is settled:
\* the .then callback registered on it, then the continuation awaiting it.
OnSettle(W, i, cbs) ==
    LET x == W.x
        p == W.inv[i].promise
        ranSide == x.sidePending /\ i = x.slow /\ p.type = "fulfilled"
        W1 == IF x.sidePending /\ i = x.slow
              THEN [W EXCEPT !.x.sidePending = FALSE,
                             !.x.sideEffect = ranSide,
                             !.x.gstore = IF ranSide THEN SetProp(@, "modified", Bool("true")) ELSE @]
              ELSE W
    IN CASE x.wait.mode = "race" /\ i = x.wait.a ->
              Resume(W1, IF p.type = "fulfilled" THEN Fulfilled(Str(<<"fast">>)) ELSE p, FALSE, FALSE, cbs)
         [] x.wait.mode = "race" /\ i = x.wait.b ->
              Resume(W1, IF p.type = "fulfilled" THEN Fulfilled(Str(<<"slow">>)) ELSE p, FALSE, FALSE, cbs)
         [] x.wait.mode = "join" /\ i = x.wait.a -> Resume(W1, p, TRUE, FALSE, cbs)
         [] x.wait.mode = "await" /\ i = x.wait.a -> Resume(W1, p, FALSE, FALSE, cbs)
         [] x.wait.mode = "catch" /\ i = x.wait.a -> Resume(W1, p, FALSE, TRUE, cbs)
         [] OTHER -> W1

\* vm.runtime.executePendingJobs() with no promise newly settled: the only
\* job left is the continuation of `await null`. The interrupt handler stops
\* the guest once mainPromiseFulfilled is set.
executePendingJobs(W, cbs) ==
    IF W.x.mainPromiseFulfilled \/ W.x.wait.mode # "job" THEN W
    ELSE RunGuest([W EXCEPT !.x.gpc = @ + 1, !.x.wait = NoWait], cbs)

\* The handles executeCode holds on guest values: "store" (storeResult.value),
\* "error" (result.error of a failed evalCode), "promise" (the main promise,
\* result.value) and "settled" (promiseState.value or promiseState.error, a
\* handle vm.getPromiseState makes when the promise is not pending) and
\* "checked" (state.value or state.error of the getPromiseState call in
\* checkMainPromiseDone).
\* acquired: the handles made; released: those .dispose() was called on;
\* twice: those it was called on again.
Acquire(W, hs) == [W EXCEPT !.x.acquired = @ \cup hs]
Release(W, hs) == [W EXCEPT !.x.twice = @ \cup (hs \cap W.x.released),
                            !.x.released = @ \cup hs]

\* checkMainPromiseDone that never sets the flag.
checkMainPromiseDone_Never(W) == W

\* checkMainPromiseDone(): sets mainPromiseFulfilled once the main promise is
\* no longer pending.
checkMainPromiseDone(W) ==
    IF W.x.mainPromiseFulfilled \/ W.x.promiseState.type = "pending" THEN W
    ELSE Acquire([W EXCEPT !.x.mainPromiseFulfilled = TRUE], {"checked"})

\* ------------------------------------------------------------ the execution
\* vm.dump(handle): strings, numbers and undefined come back as they are,
\* every other value through its JSON text.
Dump(v) == IF v.t \in {"undefined", "number", "nan", "string", "bigint"} THEN v
           ELSE JsonRoundTrip(v)

\* The value evalCode(`(${JSON.stringify(v)})`) builds in the guest.
Materialise(v) == IF v.t = "undefined" THEN Undefined ELSE EvalLiteral(JsonRoundTrip(v))

RECURSIVE SumLen(_)
SumLen(pieces) == IF pieces = <<>> THEN 0 ELSE Len(Head(pieces)) + SumLen(Tail(pieces))

\* (JSON.stringify(v) ?? '').length
RECURSIVE JsonLen(_)
RECURSIVE JsonLenIn(_, _)
JsonLen(v) ==
    CASE v.t = "undefined" -> 0
      [] v.t \in {"null", "nan"} -> 4
      [] v.t \in {"number", "boolean"} -> SumLen(v.p)
      [] v.t = "string" -> SumLen(v.p) + 2
      [] v.t = "object" ->
            LET ks == SelectSeq(KeysOf(v), LAMBDA k : v.m[k].t # "undefined")
            IN 2 + JsonLenIn(v, ks) + (IF Len(ks) > 1 THEN Len(ks) - 1 ELSE 0)
      [] v.t = "array" ->
            LET ks == KeysOf(v)
            IN 2 + JsonLenIn(v, ks) + (IF Len(ks) > 1 THEN Len(ks) - 1 ELSE 0)
      [] OTHER -> 0
JsonLenIn(v, ks) ==
    IF ks = <<>> THEN 0
    ELSE (IF v.t = "object" THEN Len(Head(ks)) + 3 ELSE 0)
         + (IF v.m[Head(ks)].t = "undefined" THEN 4 ELSE JsonLen(v.m[Head(ks)]))
         + JsonLenIn(v, Tail(ks))

TimeoutMsg == <<"Execution timed out">>
SetTimeoutMsg == <<"'setTimeout' is not defined">>
\* augmentErrorMessage(errorStr)
augmentErrorMessage(errorStr) ==
    IF errorStr = SetTimeoutMsg
    THEN errorStr \o <<". Hint: Use await tool('sleep', {ms: N}) for delays.">>
    ELSE errorStr

\* The records executeCode returns; errorType is the JavaScript type of the
\* value under `error`, whose text is kept in error.
FailureOf(msg, type, blobs) ==
    [keys |-> {"success", "error", "blobs"}, success |-> FALSE, result |-> Undefined,
     error |-> msg, errorType |-> type, blobs |-> blobs]
Failure(msg, blobs) == FailureOf(msg, "string", blobs)
Success(value, blobs) ==
    [keys |-> {"success", "result", "blobs"}, success |-> TRUE, result |-> value,
     error |-> <<>>, errorType |-> "undefined", blobs |-> blobs]
Truncated(value, msg, blobs) ==
    [keys |-> {"success", "result", "error", "blobs"}, success |-> TRUE, result |-> value,
     error |-> msg, errorType |-> "string", blobs |-> blobs]
\* errorStr of the rejected branch: error.message || JSON.stringify(error)
\* for an object, String(error) otherwise; a message that is an array passes
\* augmentErrorMessage as it is.
ErrorStr(error) ==
    IF error.t = "object" /\ Has(error, "message") /\ error.m["message"].t = "array"
    THEN [text |-> error.m["message"].m["0"].p, type |-> "array"]
    ELSE [text |-> augmentErrorMessage(error.p), type |-> "string"]
NumeralOf(n) == ToString(n)

\* A return whose finally block disposes the VM without marking it.
Return_Unmarked(W, result) == [W EXCEPT !.x.st = "returned", !.x.result = result]

\* promiseState = vm.getPromiseState(promiseHandle)
GetPromiseState(W) ==
    IF W.x.promiseState.type = "pending" THEN W ELSE Acquire(W, {"settled"})

\* return ...; finally { vmDisposed = true; vm.dispose() }
Return(W, result) ==
    [W EXCEPT !.x.st = "returned", !.x.result = result, !.x.vmDisposed = TRUE]
\* An exception leaves executeCode through the finally block.
Throw(W) == [W EXCEPT !.x.st = "threw", !.x.vmDisposed = TRUE]

\* A settlement that reads the store back whether the main promise fulfilled
\* or rejected.
Settle_AlwaysReadsBack(W) ==
    LET x == W.x
        updatedStore == DelProp(Dump(Obj(SetProp(x.gstore, "_prev", x.gprev))).m, "_prev")
        W1 == [Release(W, {"settled", "promise", "store"})
                  EXCEPT !.x.mainPromiseFulfilled = TRUE, !.store = Obj(updatedStore)]
    IN IF x.promiseState.type = "fulfilled"
       THEN Return([W1 EXCEPT !.x.readBack = updatedStore,
                              !.prevResult = Dump(x.promiseState.v)],
                   Success(Dump(x.promiseState.v), W.blobStore))
       ELSE Return(W1, FailureOf(ErrorStr(x.promiseState.v).text,
                                 ErrorStr(x.promiseState.v).type, W.blobStore))

\* The code after the polling loop, the main promise being settled.
Settle(W) ==
    LET x == W.x
        blobs == W.blobStore
    IN IF x.promiseState.type = "fulfilled"
       THEN LET value == Dump(x.promiseState.v)
                updatedStore == DelProp(Dump(Obj(SetProp(x.gstore, "_prev", x.gprev))).m, "_prev")
                n == JsonLen(value)
                W1 == [Release(W, {"settled", "promise", "store"})
                          EXCEPT !.x.mainPromiseFulfilled = TRUE,
                                !.x.readBack = updatedStore,
                                !.store = Obj(updatedStore),
                                !.prevResult = value]
            IN IF n > opts.maxResultChars
               THEN Return(W1, Truncated(value,
                        <<"Result truncated (", NumeralOf(n), " > ",
                          NumeralOf(opts.maxResultChars), " chars)">>, blobs))
               ELSE Return(W1, Success(value, blobs))
       ELSE Return([Release(W, {"settled", "promise", "store"})
                       EXCEPT !.x.mainPromiseFulfilled = TRUE],
                   FailureOf(ErrorStr(x.promiseState.v).text, ErrorStr(x.promiseState.v).type,
                             blobs))

\* A polling loop that copies the guest's store to the host at each turn.
LoopHead_Publishing(W) ==
    IF W.x.promiseState.type = "pending"
    THEN [W EXCEPT !.x.st = "polling", !.x.awaited = Len(pendingPromises(W.inv, W.x.id)),
                   !.store = Obj(W.x.gstore)]
    ELSE Settle(W)

\* One turn of `while (promiseState.type === 'pending')`: suspend in the await
\* when the main promise is pending, else leave the loop.
LoopHead(W) ==
    IF W.x.promiseState.type = "pending"
    THEN [W EXCEPT !.x.st = "polling", !.x.awaited = Len(pendingPromises(W.inv, W.x.id))]
    ELSE Settle(W)

World(e) == [x |-> ex[e], inv |-> inv, blobStore |-> blobStore, store |-> store,
             prevResult |-> prevResult]

\* The state after a run of host code on execution e that ended in world W.
Commit(e, W) ==
    /\ ex' = [ex EXCEPT ![e] = W.x]
    /\ inv' = W.inv
    /\ blobStore' = W.blobStore
    /\ store' = W.store
    /\ prevResult' = W.prevResult
    /\ fulfilled' = IF W.x.st = "returned" /\ ex[e].st # "returned" /\ W.x.result.success
                    THEN Append(fulfilled, e) ELSE fulfilled

\* The tool() calls the guest makes in its next run, whatever the callbacks do.
QuietCallbacks == <<QuietCallback, QuietCallback>>
CallsInRun(W) == Len(RunGuest(W, QuietCallbacks).inv) - Len(W.inv)
CallsOnSettle(W, i) == Len(OnSettle(W, i, QuietCallbacks).inv) - Len(W.inv)
CallsInJobs(W) == Len(executePendingJobs(W, QuietCallbacks).inv) - Len(W.inv)
CallbackSeqs(n) == [1..n -> IF opts.hooks THEN Callbacks ELSE {QuietCallback}]
DoneCallbackChoices == IF opts.hooks THEN DoneCallbacks ELSE {QuietCallback}

\* The guest's view of the store when an execution starts (storeInitCode).
Hydrate(W) ==
    [W EXCEPT !.x.gstore = DelProp(EvalLiteral(JsonRoundTrip(W.store)).m, "_prev"),
              !.x.hydrated = DelProp(EvalLiteral(JsonRoundTrip(W.store)).m, "_prev"),
              !.x.gprev = EvalLiteral(JsonRoundTrip(IF W.prevResult.t = "undefined" THEN Null
                                                    ELSE W.prevResult))]

SyntaxMsg == <<"expecting ';'">>

\* execute.handler({code}): executeCode up to its first suspension. The guest
\* runs to its first await inside vm.evalCode, its tool() calls run the
\* synchronous part of their host tasks.
Execute(e, code, arg, name) ==
    /\ phase = "ready"
    /\ ex[e].st = "idle"
    /\ \A d \in Execs : d < e => ex[d].st # "idle"
    /\ LET W0 == [World(e) EXCEPT !.x.code = code, !.x.arg = arg, !.x.name = name,
                                  !.x.preds = fulfilled, !.x.startTools = tools, !.x.assignedAt = lastAssign,
                                  !.blobStore = <<>>]
       IN IF ~Stringifiable(W0.store) \/ ~Stringifiable(W0.prevResult)
          THEN Commit(e, Throw(W0))
          ELSE IF code = "syntax"
          THEN Commit(e, Return(Release(Acquire(Hydrate(W0), {"store", "error"}),
                                        {"error", "store"}),
                                Failure(augmentErrorMessage(SyntaxMsg), W0.blobStore)))
          ELSE \E cbs \in CallbackSeqs(CallsInRun(Hydrate(W0))) :
                  Commit(e, LoopHead(GetPromiseState(
                      Acquire(RunGuest(Hydrate(W0), cbs), {"store", "promise"}))))
    /\ UNCHANGED <<regVars, hostSets, lastAssign>>


\* The catch block without its recovery branch: the rejection is queued
\* whatever the callback set.
Recover_Ignored(W, i, lifted, message) == Enqueue(W, i, "reject", Str(message))

\* if ('result' in errorEvent): the recovered result, lifted, is queued as a
\* resolution.
Recover(W, i, lifted, message) ==
    Enqueue([W EXCEPT !.blobStore = lifted.bs], i, "resolve", lifted.v)

\* An extractor that writes the references into the value it is given.
InputLeft_InPlace(value, lifted) == lifted

\* extractBlobs only reads its input: arrays are copied with value.map and
\* objects into a fresh `result`, so the value handed in is left as it was.
InputLeft(value, lifted) == value

\* An event built after blob lifting: the callback is handed the references.
EventResult_Lifted(result, ids) ==
    IF Len(ids) >= BlobCount(result) THEN extractBlobs(result, <<>>, ids).v ELSE result

\* const successEvent = {toolName, args, result}: the event handed to
\* onToolCallSuccess holds the handler's result as it is; extractBlobs is
\* applied to successEvent.result once the callback has returned.
EventResult(result, ids) == result

\* The host task of invocation i after `await tool.handler(...)`: the handler
\* fulfilled with v (ok) or rejected; onToolCallSuccess / onToolCallError run
\* as cb says (the error callback recovering with rec), blobs are lifted with
\* the ids drawn, and the resolution is queued.
HandlerTask(W, i, ok, v, cb, rec, ids) ==
    LET value == IF W.inv[i].builtin THEN W.inv[i].pending ELSE v
        W0 == [W EXCEPT !.inv[i].outcome = IF ok THEN "fulfilled" ELSE "rejected",
                        !.inv[i].handlerResult = value,
                        !.inv[i].late = W.x.st \in {"returned", "threw"}]
        W1 == IF ok THEN [W0 EXCEPT !.inv[i].nSuccess = @ + Invoked,
                                    !.inv[i].success = cb.success,
                                    !.inv[i].successSaw = EventResult(value, ids)]
              ELSE W0
        result == IF cb.success = "set" THEN SuccessResult ELSE value
        failed == ~ok \/ cb.success = "throw"
        message == IF ok THEN CallbackMsg ELSE HandlerMsg
        W2 == [W1 EXCEPT !.inv[i].nError = @ + Invoked, !.inv[i].error = cb.error,
                         !.inv[i].recovered = IF cb.error = "recover" THEN rec ELSE @]
        final == IF failed THEN rec ELSE result
        lifted == extractBlobs(final, W.blobStore, ids)
    IN IF ~failed
       THEN Enqueue([W1 EXCEPT !.blobStore = lifted.bs,
                               !.inv[i].liftIn = InputLeft(final, lifted.v)],
                    i, "resolve", lifted.v)
       ELSE CASE cb.error = "throw" -> [W2 EXCEPT !.inv[i].st = "fault"]
              [] cb.error = "recover" ->
                    Recover([W2 EXCEPT !.inv[i].liftIn = InputLeft(final, lifted.v)],
                            i, lifted, message)
              [] OTHER -> Enqueue(W2, i, "reject", Str(message))

\* The blob ids the host task draws: one for each payload of the value that
\* is lifted.
IdsDrawn(ok, v, cb, rec) ==
    LET failed == ~ok \/ cb.success = "throw"
    IN IF failed THEN (IF cb.error = "recover" THEN BlobCount(rec) ELSE 0)
       ELSE BlobCount(IF cb.success = "set" THEN SuccessResult ELSE v)

\* The handler of invocation i completes and its host task runs to its end.
HandlerDone(i, ok, v, cb, rec, ids) ==
    /\ i \in DOMAIN inv
    /\ inv[i].st = "running"
    /\ IF inv[i].builtin THEN ok /\ v = Undefined ELSE ok \/ v = Undefined
    /\ cb \in DoneCallbackChoices
    /\ ids \in IdSeqs(IdsDrawn(ok, v, cb, rec))
    /\ ok \/ cb.success = "none"
    /\ (~ok \/ cb.success = "throw") \/ cb.error = "none"
    /\ cb.error = "recover" \/ rec = RecoveredResult
    /\ Commit(inv[i].exec, HandlerTask(World(inv[i].exec), i, ok, v, cb, rec, ids))
    /\ UNCHANGED <<regVars, hostSets, lastAssign>>

\* A resolution that never looks at the flags.
Skips_Never(x) == FALSE

\* if (vmDisposed || mainPromiseFulfilled) return;
Skips(x) == x.vmDisposed \/ x.mainPromiseFulfilled

\* const jsonStr = JSON.stringify(transformedResult) throws inside the
\* callback when the value has no JSON text: the promise `resolveQueue` is
\* then rejected, and a callback chained on a rejected promise with .then(cb)
\* is never invoked.
ChainBroken(x, s) == x.queueRejected \/ (s.kind = "resolve" /\ ~Stringifiable(s.v))

\* The next callback of the resolveQueue chain of execution e.
RunResolution(e) ==
    /\ ex[e].resolveQueue # <<>>
    /\ LET i == Head(ex[e].resolveQueue)
           W0 == [World(e) EXCEPT !.x.resolveQueue = Tail(@)]
           s == inv[i].settle
           W1 == [W0 EXCEPT !.inv[i].st = "settled",
                            !.inv[i].promise =
                                IF s.kind = "resolve" THEN Fulfilled(Materialise(s.v))
                                ELSE Rejected(s.v)]
       IN IF ~ex[e].queueRejected /\ Skips(ex[e])
          THEN Commit(e, [W0 EXCEPT !.inv[i].st = "dropped"])
          ELSE IF ChainBroken(ex[e], s)
          THEN Commit(e, [W0 EXCEPT !.inv[i].st = "stuck", !.x.queueRejected = TRUE])
          ELSE \E cbs \in CallbackSeqs(CallsOnSettle(W1, i)) :
                  Commit(e, checkMainPromiseDone(OnSettle(W1, i, cbs)))
    /\ UNCHANGED <<regVars, hostSets, lastAssign>>

\* A pendingPromise awaited by the current Promise.all is rejected: the host
\* task of its invocation threw out of a callback.
AwaitRejects(e) ==
    LET pp == pendingPromises(inv, e)
    IN \E n \in 1..ex[e].awaited : inv[pp[n]].st = "fault"

\* The await of the polling loop ends (the timer fired or every awaited
\* pendingPromise is resolved): pump, re-read the main promise, count.
PollWake(e) ==
    /\ ex[e].st = "polling"
    /\ ex[e].resolveQueue = <<>>
    /\ ~AwaitRejects(e)
    /\ \E cbs \in CallbackSeqs(CallsInJobs(World(e))) :
          LET W1 == GetPromiseState(executePendingJobs(World(e), cbs))
              W2 == [W1 EXCEPT !.x.pollIterations = @ + 1]
          IN Commit(e, IF W2.x.pollIterations >= opts.maxPollIterations
                       THEN Return(Release(W2, {"promise", "store"}),
                                   Failure(TimeoutMsg, W2.blobStore))
                       ELSE LoopHead(W2))
    /\ UNCHANGED <<regVars, hostSets, lastAssign>>

\* The await of the polling loop rejects: executeCode rejects.
PollThrow(e) ==
    /\ ex[e].st = "polling"
    /\ AwaitRejects(e)
    /\ Commit(e, Throw(World(e)))
    /\ UNCHANGED <<regVars, hostSets, lastAssign>>

\* sandbox.store = value
SetStore(value) ==
    /\ phase = "ready"
    /\ hostSets < MaxHostSets
    /\ hostSets' = hostSets + 1
    /\ store' = value
    /\ lastAssign' = Len(fulfilled)
    /\ UNCHANGED <<regVars, prevResult, blobStore, ex, inv, fulfilled>>

\* ---------------------------------------------------------- specifications
HandlerOutcomes == {<<TRUE, r>> : r \in ToolResults} \cup {<<FALSE, Undefined>>}
                       \cup {<<TRUE, Undefined>>}

Init == InitRegistry /\ InitExec

\* The event pipeline: executions of the programs that call one tool, on a
\* sandbox built with the three callbacks and with no tool, with t1 or with a
\* tool named sleep. The host awaits each execute.handler call before it makes
\* the next one; a handler an execution left behind may still complete later.
PipelineToolLists == {<<>>, <<"t1">>, <<"sleep">>}
PipelineCodes == {"call", "catch", "fire", "throw", "syntax"}

Next ==
    \/ \E ts \in PipelineToolLists, p \in 1..MaxPoll :
          createSandbox(ts, p, DEFAULT_maxResultChars, TRUE) /\ UNCHANGED execVars
    \/ \E n \in {"t1"} : regOps < MaxLiveRegOps /\ addTool(n) /\ UNCHANGED execVars
    \/ \E n \in {"t1"} : regOps < MaxLiveRegOps /\ removeTool(n) /\ UNCHANGED execVars
    \/ \E e \in 1..MaxExec, code \in PipelineCodes, name \in CallNames :
          /\ UsesName(code) \/ name = "t1"
          /\ \A d \in Execs : ex[d].st # "polling"
          /\ \E arg \in ArgsOf(code) : Execute(e, code, arg, name)
    \/ \E i \in DOMAIN inv, o \in HandlerOutcomes, cb \in DoneCallbacks,
          rec \in RecoveredResults, ids \in IdSeqs(0) \cup IdSeqs(1) :
          HandlerDone(i, o[1], o[2], cb, rec, ids)
    \/ \E e \in Execs : RunResolution(e)
    \/ \E e \in Execs : PollWake(e)
    \/ \E e \in Execs : PollThrow(e)

Spec == Init /\ [][Next]_vars

\* The race: executions of the programs that race two sleep calls, on a
\* sandbox built without callbacks.
RaceCodes == {"race", "raceJoin"}

NextRace ==
    \/ \E p \in 1..MaxPoll :
          createSandbox(<<>>, p, DEFAULT_maxResultChars, FALSE) /\ UNCHANGED execVars
    \/ \E e \in 1..MaxRaceExec, code \in RaceCodes :
          /\ \A d \in Execs : ex[d].st # "polling"
          /\ Execute(e, code, Undefined, "sleep")
    \/ \E i \in DOMAIN inv, o \in HandlerOutcomes :
          HandlerDone(i, o[1], o[2], QuietCallback, RecoveredResult, <<>>)
    \/ \E e \in Execs : RunResolution(e)
    \/ \E e \in Execs : PollWake(e)

SpecRace == Init /\ [][NextRace]_vars

\* The registry alone: construction from any list of the host's names, then
\* addTool and removeTool.
NextRegistry ==
    \/ \E ts \in ToolLists :
          createSandbox(ts, DEFAULT_MAX_POLL_ITERATIONS, DEFAULT_maxResultChars, FALSE)
          /\ UNCHANGED execVars
    \/ \E n \in UserNames : addTool(n) /\ UNCHANGED execVars
    \/ \E n \in RemoveNames : removeTool(n) /\ UNCHANGED execVars

SpecRegistry == Init /\ [][NextRegistry]_vars

\* The store: executions of the programs that call no tool, overlapping
\* through `await null`, and host assignments to sandbox.store.
StoreCodes == {"ret", "prev", "throw", "throwObj", "syntax", "tick", "early"}

NextStore ==
    \/ \E p \in 1..MaxPoll, c \in CharCaps :
          createSandbox(<<>>, p, c, FALSE) /\ UNCHANGED execVars
    \/ \E e \in 1..MaxStoreExec, code \in StoreCodes :
          \E arg \in ArgsOf(code) : Execute(e, code, arg, "t1")
    \/ \E e \in Execs : PollWake(e)
    \/ \E m \in HostStores : SetStore(m)

SpecStore == Init /\ [][NextStore]_vars

\* The blobs: executions of the programs that read blobs back, on a sandbox
\* built without callbacks whose tool t1 returns a payload;
\* a handler an execution left behind may complete during the next one.
BlobCodes == {"get", "missing", "fire"}
BlobOutcomes == {<<TRUE, r>> : r \in BlobResults}

NextBlob ==
    \/ createSandbox(<<"t1">>, MaxBlobPoll, DEFAULT_maxResultChars, FALSE) /\ UNCHANGED execVars
    \/ \E e \in 1..MaxBlobExec, code \in BlobCodes :
          /\ \A d \in Execs : ex[d].st # "polling"
          /\ Execute(e, code, Num("1"), "t1")
    \/ \E i \in DOMAIN inv, o \in BlobOutcomes \cup {<<TRUE, Undefined>>},
          ids \in IdSeqs(0) \cup IdSeqs(1) :
          /\ inv[i].builtin \/ o \in BlobOutcomes
          /\ HandlerDone(i, o[1], o[2], QuietCallback, RecoveredResult, ids)
    \/ \E e \in Execs : RunResolution(e)
    \/ \E e \in Execs : PollWake(e)

SpecBlob == Init /\ [][NextBlob]_vars

\* Introspection: executions of `return await tool(NAME, ARG)` for the two
\* introspection tools, on a sandbox built without callbacks from no tool, from
\* t1 or from a tool the host named list_tools, between addTool and removeTool
\* calls.
IntroToolLists == {<<>>, <<"t1">>, <<"list_tools">>}
IntroNames == {"list_tools", "describe_tool"}
IntroArgs == {EmptyObj} \cup {Obj(Field("name", Str(<<n>>))) : n \in {"t1", "sleep", "unknown"}}

NextIntro ==
    \/ \E ts \in IntroToolLists :
          createSandbox(ts, MaxPoll, DEFAULT_maxResultChars, FALSE) /\ UNCHANGED execVars
    \/ \E n \in {"t1"} : addTool(n) /\ UNCHANGED execVars
    \/ \E n \in {"t1", "list_tools"} : removeTool(n) /\ UNCHANGED execVars
    \/ \E e \in 1..MaxIntroExec, name \in IntroNames, arg \in IntroArgs :
          /\ \A d \in Execs : ex[d].st # "polling"
          /\ name = "describe_tool" \/ arg = EmptyObj
          /\ Execute(e, "call", arg, name)
    \/ \E i \in DOMAIN inv, o \in {<<TRUE, Num("5")>>, <<TRUE, Undefined>>} :
          /\ inv[i].builtin \/ o[2] # Undefined
          /\ HandlerDone(i, o[1], o[2], QuietCallback, RecoveredResult, <<>>)
    \/ \E e \in Execs : RunResolution(e)
    \/ \E e \in Execs : PollWake(e)

SpecIntro == Init /\ [][NextIntro]_vars

\* The resolution queue: executions of the programs that keep two sleep calls
\* outstanding, on a sandbox built with the three callbacks, so that a host
\* task may throw out of a callback while the other call is still running.
QueueCodes == {"race", "pair"}

NextQueue ==
    \/ \E p \in 1..MaxPoll :
          createSandbox(<<>>, p, DEFAULT_maxResultChars, TRUE) /\ UNCHANGED execVars
    \/ \E e \in 1..MaxQueueExec, code \in QueueCodes :
          /\ \A d \in Execs : ex[d].st # "polling"
          /\ Execute(e, code, Undefined, "sleep")
    \/ \E i \in DOMAIN inv, cb \in DoneCallbacks :
          HandlerDone(i, TRUE, Undefined, cb, RecoveredResult, <<>>)
    \/ \E e \in Execs : RunResolution(e)
    \/ \E e \in Execs : PollWake(e)
    \/ \E e \in Execs : PollThrow(e)

SpecQueue == Init /\ [][NextQueue]_vars

\* The live registry: executions of programs that call t1 after a suspension
\* (and at once), on a sandbox built without callbacks, with and without t1,
\* while the host adds and removes t1.
LiveToolLists == {<<>>, <<"t1">>}
LiveCodes == {"later", "call"}

NextLive ==
    \/ \E ts \in LiveToolLists :
          createSandbox(ts, MaxLivePoll, DEFAULT_maxResultChars, FALSE) /\ UNCHANGED execVars
    \/ addTool("t1") /\ UNCHANGED execVars
    \/ removeTool("t1") /\ UNCHANGED execVars
    \/ \E e \in 1..MaxLiveExec, code \in LiveCodes :
          /\ \A d \in Execs : ex[d].st # "polling"
          /\ Execute(e, code, EmptyObj, "t1")
    \/ \E i \in DOMAIN inv, o \in HandlerOutcomes :
          HandlerDone(i, o[1], o[2], QuietCallback, RecoveredResult, <<>>)
    \/ \E e \in Execs : RunResolution(e)
    \/ \E e \in Execs : PollWake(e)

SpecLive == Init /\ [][NextLive]_vars

\* The event loop of the host: the timer of an iteration of the polling loop
\* fires (sleep(100) or sleep(10) in the Promise.race), a queued resolution
\* runs, a rejected await is delivered. No handler has to complete.
HostTurn == \E e \in Execs : PollWake(e) \/ RunResolution(e) \/ PollThrow(e)
Scheduling == WF_vars(HostTurn)

\* The event pipeline under that scheduling.
SpecTimed == Init /\ [][Next]_vars /\ Scheduling

\* -------------------------------------------------------------- properties
HasDuplicate(ns) == \E i, j \in DOMAIN ns : i < j /\ ns[i] = ns[j]
InRegistry(n) == \E i \in DOMAIN tools : tools[i].name = n

\* C1: execute.handler never rejects: no execution ends by throwing, whatever
\* the guest, the handlers, the callbacks and the store the host assigned do,
\* and every failure that is returned carries success = false and an error.
C1_NeverRejects ==
    \A e \in Execs :
        /\ ex[e].st # "threw"
        /\ ex[e].st = "returned" /\ ~ex[e].result.success =>
              /\ ex[e].result.error # <<>>
              /\ ex[e].result.keys = {"success", "error", "blobs"}

\* C5: createSandbox fails, with "Duplicate tool name: <n>" for a name n that
\* two of the tools given share, exactly when two of them share a name; addTool
\* with a name in the registry fails with the same message and removeTool with
\* a name not in the registry fails with "Tool not found: <n>"; a failing
\* addTool or removeTool leaves the registry and execute.description as they
\* were, and the other calls succeed.
C5_RegistryErrors ==
    [][/\ phase' # "new" =>
            /\ (phase' = "failed") <=> HasDuplicate(optionsTools')
            /\ phase' = "failed" =>
                  \E i, j \in DOMAIN optionsTools' :
                      /\ i < j /\ optionsTools'[i] = optionsTools'[j]
                      /\ ctorError' = <<"Duplicate tool name: ", optionsTools'[j]>>
       /\ regOps' # regOps /\ lastOp'.op = "addTool" =>
            IF InRegistry(lastOp'.name)
            THEN /\ lastOp'.error = <<"Duplicate tool name: ", lastOp'.name>>
                 /\ tools' = tools /\ description' = description
            ELSE lastOp'.error = <<>>
       /\ regOps' # regOps /\ lastOp'.op = "removeTool" =>
            IF ~InRegistry(lastOp'.name)
            THEN /\ lastOp'.error = <<"Tool not found: ", lastOp'.name>>
                 /\ tools' = tools /\ description' = description
            ELSE lastOp'.error = <<>>
      ]_vars

\* An addTool of a name that is in the registry has failed, after a removeTool
\* of a name that is not.
C5_Witness ==
    /\ phase = "ready" /\ regOps = 2
    /\ lastOp = [op |-> "addTool", name |-> "t1",
                 error |-> <<"Duplicate tool name: ", "t1">>]
    /\ Len(tools) = Len(BuiltinNames) + 1

\* C6: once createSandbox has succeeded, and after any addTool and removeTool
\* calls, no two tools of the registry have the same name.
C6_NamesUnique == phase = "ready" => ~HasDuplicate(NamesOf(tools))

\* C7: no user tool of the registry has a reserved name (createSandbox and
\* addTool fail for execute, describe_tool, list_tools, sleep and get_blob),
\* so a handler run for a guest call of a built-in name is the built-in's.
C7_ReservedNotShadowed ==
    /\ phase = "ready" =>
          \A i \in DOMAIN tools : tools[i].name \in ReservedNames => tools[i].builtin
    /\ \A i \in DOMAIN inv :
          inv[i].toolName \in Range(BuiltinNames) /\ inv[i].handlerCalls > 0 => inv[i].builtin

RaceOnFast(e) == ex[e].code \in RaceCodes /\ ex[e].acc = Str(<<"fast">>)
Quiescent(e) ==
    /\ ~ex[e].sideEffect
    /\ fulfilled # <<>> /\ fulfilled[Len(fulfilled)] = e =>
          "modified" \in DOMAIN store.m /\ store.m["modified"] = Bool("false")

\* C2 as stated: in every execution that races fast against slow and whose
\* race settled on the fast branch, sideEffect has not run, and the store
\* read back from the execution holds modified = false.
C2_Original == \A e \in Execs : RaceOnFast(e) => Quiescent(e)

\* C2: in every execution that races fast against slow, returns the outcome
\* of the race without awaiting anything after it, and whose race settled on
\* the fast branch, sideEffect never runs, in whatever order the handlers
\* complete, and sandbox.store after the execution holds modified = false.
C2_RaceLoserQuiescence ==
    \A e \in Execs : RaceOnFast(e) /\ ex[e].code = "race" => Quiescent(e)

\* The race settled on fast, the slow handler completed afterwards, its
\* resolution was dropped and the execution returned 'fast'.
C2_Witness ==
    \E e \in Execs :
        /\ RaceOnFast(e) /\ ex[e].code = "race"
        /\ ex[e].st = "returned" /\ ex[e].result.result = Str(<<"fast">>)
        /\ inv[ex[e].slow].st = "dropped"
        /\ store.m["modified"] = Bool("false")

WroteK(e) == ex[e].code \in {"ret", "tick"} /\ JsonRepresentable(ex[e].arg)
IndexIn(seq, e) == CHOOSE n \in DOMAIN seq : seq[n] = e
Started(e) == ex[e].st \in {"polling", "returned"}

\* C3 as stated: if E1 fulfilled after writing store.k = v, v JSON-
\* representable, and no host assignment followed, the next execution E2 finds
\* store.k = v when it starts, and sandbox.store.k = v on the host after E1.
C3_Original ==
    /\ \A e1, e2 \in Execs :
          /\ e2 = e1 + 1 /\ Started(e2) /\ WroteK(e1)
          /\ e1 \in Range(ex[e2].preds)
          /\ IndexIn(ex[e2].preds, e1) > ex[e2].assignedAt
          => /\ "k" \in DOMAIN ex[e2].hydrated
             /\ ex[e2].hydrated["k"] = ex[e1].arg
    /\ \A e1 \in Execs :
          /\ fulfilled # <<>> /\ fulfilled[Len(fulfilled)] = e1 /\ WroteK(e1)
          /\ lastAssign < Len(fulfilled)
          => "k" \in DOMAIN store.m /\ store.m["k"] = ex[e1].arg

PrevOf(x) == IF x.t = "undefined" THEN Null ELSE JsonRoundTrip(x)

\* C4 as stated: the execution E2 that follows an execution E1 that returned
\* x finds store._prev = JSON.parse(JSON.stringify(x)) (JSON null when no
\* execution returned a value before), and store._prev = ARG in E2 changes
\* neither what E2 reads from store._prev afterwards nor, E2 returning what
\* it read, what the execution after E2 finds.
C4_Original ==
    \A e2 \in Execs : Started(e2) =>
        /\ ex[e2].preds = <<>> => ex[e2].gprev = Null
        /\ \A e1 \in Execs :
              e2 = e1 + 1 /\ e1 \in Range(ex[e2].preds)
              => ex[e2].gprev = PrevOf(ex[e1].result.result)
        /\ ex[e2].code = "prev" /\ ex[e2].st = "returned" /\ ex[e2].result.success
              => ex[e2].result.result = ex[e2].gprev

\* C8: a tool() call of a name that is not in the registry queues the
\* rejection "Tool not found: <name>", the guest promise is rejected with it,
\* and an execution that does not catch it returns
\* {success: false, error: "Tool not found: <name>", blobs: []}.
C8_UnknownTool ==
    \A i \in DOMAIN inv : ~inv[i].found =>
        /\ inv[i].handlerCalls = 0
        /\ inv[i].settle = [kind |-> "reject",
                            v |-> Str(<<"Tool not found: ", inv[i].toolName>>)]
        /\ inv[i].st = "settled" => inv[i].promise = Rejected(inv[i].settle.v)
        /\ ex[inv[i].exec].code = "call" /\ ex[inv[i].exec].st = "returned" =>
              ex[inv[i].exec].result =
                  [keys |-> {"success", "error", "blobs"}, success |-> FALSE,
                   result |-> Undefined,
                   error |-> <<"Tool not found: ", inv[i].toolName>>,
                   errorType |-> "string", blobs |-> <<>>]

Blocked(i) == inv[i].before = "throw"
Dequeued(i) == inv[i].st \in {"settled", "dropped"}
Untouched(i) == inv[i].handlerCalls = 0 /\ inv[i].nSuccess = 0 /\ inv[i].nError = 0

\* C9 as stated: when onBeforeToolCall threw for an invocation, its handler
\* was not called, neither outcome callback was invoked, and once its queued
\* resolution has been dequeued the guest promise is rejected with the message.
C9_Original ==
    \A i \in DOMAIN inv : Blocked(i) =>
        /\ Untouched(i)
        /\ Dequeued(i) => inv[i].promise = Rejected(Str(BlockedMsg))

\* C9: when onBeforeToolCall throws for an invocation, its handler is never
\* called, neither onToolCallSuccess nor onToolCallError is invoked, and a
\* rejection with the thrown message is queued; the guest promise is rejected
\* with that message when the rejection is dequeued while the main promise is
\* pending and the VM is not disposed, and otherwise is never settled.
C9_BlockingBefore ==
    \A i \in DOMAIN inv : Blocked(i) =>
        /\ Untouched(i)
        /\ inv[i].settle = [kind |-> "reject", v |-> Str(BlockedMsg)]
        /\ inv[i].st \in {"queued", "settled", "dropped"}
        /\ inv[i].promise = IF inv[i].st = "settled" THEN Rejected(Str(BlockedMsg))
                            ELSE PendingState
        /\ inv[i].st = "dropped" =>
              ex[inv[i].exec].mainPromiseFulfilled \/ ex[inv[i].exec].vmDisposed

\* onBeforeToolCall threw, the guest caught the rejection and returned its
\* message.
C9_Witness ==
    \E i \in DOMAIN inv :
        /\ Blocked(i) /\ inv[i].st = "settled"
        /\ ex[inv[i].exec].code = "catch" /\ ex[inv[i].exec].st = "returned"
        /\ ex[inv[i].exec].result.result = Str(BlockedMsg)

ShortCircuited(i) == inv[i].before = "returnValue"
ResultLeft(i) == IF inv[i].success = "set" THEN SuccessResult ELSE ReturnValue

\* C10: when onBeforeToolCall set returnValue for an invocation, its handler
\* was not called, onToolCallSuccess was invoked once with result =
\* returnValue, and once the task of the invocation is over the guest promise
\* is resolved with the result the callback left.
C10_ShortCircuit ==
    \A i \in DOMAIN inv : ShortCircuited(i) =>
        /\ inv[i].handlerCalls = 0
        /\ inv[i].nSuccess = 1 /\ inv[i].successSaw = ReturnValue
        /\ inv[i].st \in {"settled", "dropped", "fault"} =>
              inv[i].promise = Fulfilled(ResultLeft(i))

IsPayload(v) == IsMedia(v) \/ IsResourceBlob(v)
IsRefTo(w, v) ==
    /\ w.t = "object" /\ DOMAIN w.m = {"type", "id", "mimeType"}
    /\ w.m["type"] = Str(<<"blob_ref">>)
    /\ \E id \in BlobIds : w.m["id"] = Str(<<id>>)
    /\ w.m["mimeType"] = v.m["mimeType"]
\* w is v with every payload replaced by a reference and nothing else changed.
RECURSIVE IsLiftOf(_, _)
IsLiftOf(w, v) ==
    IF v.t \notin {"object", "array"} THEN w = v
    ELSE IF IsPayload(v) THEN IsRefTo(w, v)
    ELSE /\ w.t = v.t /\ DOMAIN w.m = DOMAIN v.m
         /\ \A k \in DOMAIN v.m : IsLiftOf(w.m[k], v.m[k])
HandlerFulfilled(i) == inv[i].outcome = "fulfilled"
SuccessLeft(i) == IF inv[i].success = "set" THEN SuccessResult ELSE inv[i].handlerResult

\* C12: when the handler of an invocation fulfilled with r, onToolCallSuccess
\* was invoked once with result = r, and when the callback returned, once the
\* queued resolution has been dequeued the guest promise is resolved with the
\* value event.result had after the callback, blobs lifted.
C12_ResultMutation ==
    \A i \in DOMAIN inv : HandlerFulfilled(i) =>
        /\ inv[i].nSuccess = 1 /\ inv[i].successSaw = inv[i].handlerResult
        /\ inv[i].success # "throw" /\ Dequeued(i) =>
              /\ inv[i].promise.type = "fulfilled"
              /\ IsLiftOf(inv[i].promise.v, SuccessLeft(i))

HandlerRejected(i) == inv[i].outcome = "rejected"

\* C13: when a handler rejected, onToolCallError was invoked once; once the
\* queued resolution has been dequeued the guest promise is fulfilled with the
\* result the callback set, or else rejected with the error's message; and an
\* execution of `return await tool(NAME, ARG)` whose guest promise was so
\* rejected returned {success: false, error: <message>}.
C13_HandlerFailure ==
    \A i \in DOMAIN inv : HandlerRejected(i) =>
        /\ inv[i].nError = 1
        /\ inv[i].error = "recover" /\ Dequeued(i) =>
              /\ inv[i].promise.type = "fulfilled"
              /\ IsLiftOf(inv[i].promise.v, inv[i].recovered)
        /\ inv[i].error = "none" /\ Dequeued(i) =>
              inv[i].promise = Rejected(Str(HandlerMsg))
        /\ inv[i].error = "none" /\ inv[i].st = "settled"
              /\ ex[inv[i].exec].code = "call" /\ ex[inv[i].exec].st = "returned" =>
              /\ ~ex[inv[i].exec].result.success
              /\ ex[inv[i].exec].result.error = HandlerMsg

\* What the guest and the host can observe of a world: everything but the
\* record of which callbacks ran for the invocation.
Observable(W, i) ==
    [W EXCEPT !.inv[i].outcome = "none", !.inv[i].handlerResult = Undefined,
              !.inv[i].recovered = Undefined, !.inv[i].late = FALSE,
              !.inv[i].nSuccess = 0, !.inv[i].nError = 0,
              !.inv[i].success = "none", !.inv[i].error = "none",
              !.inv[i].successSaw = Undefined]
RecoverCallback == [before |-> "none", success |-> "none", error |-> "recover"]
\* The sandbox's other options: what its onToolCallSuccess does when invoked
\* (with onToolCallError setting result = R when invoked).
SuccessOptions(kinds) ==
    {[before |-> "none", success |-> k,
      error |-> IF k = "throw" THEN "recover" ELSE "none"] : k \in kinds}
\* For every handler call in flight and every value R: the world after the
\* handler rejects and onToolCallError sets result = R is, to an observer, the
\* world after the handler fulfils with R, the callbacks acting as cb says.
RecoveryEquivalent(kinds) ==
    \A i \in DOMAIN inv : inv[i].st = "running" /\ ~inv[i].builtin =>
        \A R \in ToolResults \cup RecoveredResults \cup {Undefined}, cb \in SuccessOptions(kinds) :
          \A ids \in IdSeqs(BlobCount(R)) :
            LET W == World(inv[i].exec)
            IN Observable(HandlerTask(W, i, FALSE, Undefined, RecoverCallback, R, ids), i)
               = Observable(HandlerTask(W, i, TRUE, R, cb, R, ids), i)

\* C14 as stated: a rejecting handler recovered with R and a handler fulfilling
\* with R leave the same observable world, whatever the sandbox's
\* onToolCallSuccess does.
C14_Original == RecoveryEquivalent({"none", "set", "throw"})

\* C14: a rejecting handler recovered with R and a handler fulfilling with R
\* leave the same observable world (queued resolution, blob table, guest and
\* execution state), in a sandbox whose onToolCallSuccess, if any, does not
\* replace event.result.
C14_RecoveryEquivalence == RecoveryEquivalent({"none", "throw"})
\* An execution returned the recovered result of its tool call.
C14_Witness ==
    \E i \in DOMAIN inv :
        /\ HandlerRejected(i) /\ inv[i].error = "recover" /\ inv[i].st = "settled"
        /\ inv[i].recovered = RecoveredResult
        /\ ex[inv[i].exec].code = "call" /\ ex[inv[i].exec].st = "returned"
        /\ ex[inv[i].exec].result.success
        /\ ex[inv[i].exec].result.result = RecoveredResult

TimedOut(e) == ex[e].st = "returned" /\ ~ex[e].result.success /\ ex[e].result.error = TimeoutMsg

\* C15: an execution returns the timeout failure exactly when its poll counter
\* has reached maxPollIterations with the main promise still pending: a
\* timed-out execution has a pending main promise and a full counter, and an
\* execution that returned with its main promise settled reports the
\* settlement.
C15_Timeout ==
    \A e \in Execs :
        /\ TimedOut(e) =>
              /\ ex[e].pollIterations >= opts.maxPollIterations
              /\ ex[e].promiseState.type = "pending"
              /\ ex[e].result.keys = {"success", "error", "blobs"}
        /\ ex[e].st = "returned" /\ ex[e].promiseState.type = "fulfilled" =>
              ex[e].result.success
        /\ ex[e].st = "returned" /\ ex[e].promiseState.type = "rejected" =>
              ~ex[e].result.success /\ ex[e].result.error = ex[e].promiseState.v.p

TruncatedMsg(n, cap) == <<"Result truncated (", NumeralOf(n), " > ", NumeralOf(cap), " chars)">>
MainFulfilled(e) == ex[e].st = "returned" /\ ex[e].promiseState.type = "fulfilled"
\* The store the guest left, as the host reads it back.
ReadBack(e) == DelProp(Dump(Obj(SetProp(ex[e].gstore, "_prev", ex[e].gprev))).m, "_prev")

\* C16: an execution whose main promise fulfilled with a value of JSON length
\* n returned success = true with the full value; with n > maxResultChars its
\* error is "Result truncated (<n> > <cap> chars)", otherwise it has no error
\* field; in both cases the store was read back and the execution counts as
\* the fulfilled execution that sets _prev.
C16_Truncation ==
    \A e \in Execs : MainFulfilled(e) =>
        LET value == Dump(ex[e].promiseState.v)
            n == JsonLen(value)
        IN /\ ex[e].result.success
           /\ ex[e].result.result = value
           /\ IF n > opts.maxResultChars
              THEN /\ ex[e].result.keys = {"success", "result", "error", "blobs"}
                   /\ ex[e].result.error = TruncatedMsg(n, opts.maxResultChars)
              ELSE ex[e].result.keys = {"success", "result", "blobs"}
           /\ ex[e].readBack = ReadBack(e)
           /\ e \in Range(fulfilled)

\* The table entry of the payload v that the reference w replaced.
EntryFor(w, v) ==
    [id |-> w.m["id"].p[1], data |-> IF IsMedia(v) THEN v.m["data"] ELSE v.m["blob"],
     mimeType |-> v.m["mimeType"]]
\* The table bs holds the entry of every payload of v, under the id of its
\* reference in w.
RECURSIVE Held(_, _, _)
Held(w, v, bs) ==
    IF v.t \notin {"object", "array"} THEN TRUE
    ELSE IF IsPayload(v) THEN EntryFor(w, v) \in Range(bs)
    ELSE \A k \in DOMAIN v.m : Held(w.m[k], v.m[k], bs)
\* The host task of invocation i runs in this step, its handler having fulfilled.
Lifts(i) ==
    /\ i \in DOMAIN inv /\ inv[i].st = "running"
    /\ inv'[i].st = "queued" /\ inv'[i].outcome = "fulfilled"
\* The queued resolution of invocation i is applied in this step.
Delivers(i) ==
    /\ i \in DOMAIN inv /\ inv[i].st = "queued" /\ inv[i].settle.kind = "resolve"
    /\ inv'[i].st = "settled"

\* C17: the host task of a fulfilled handler queues the result with every
\* payload replaced by a reference and nothing else changed, the blob table
\* gains one entry for each payload, holding its data, and the guest promise
\* is fulfilled with the value that was queued.
C17_BlobLifting ==
    [][\A i \in DOMAIN inv :
          /\ Lifts(i) =>
                /\ IsLiftOf(inv'[i].settle.v, inv'[i].handlerResult)
                /\ Len(blobStore') = Len(blobStore) + BlobCount(inv'[i].handlerResult)
                /\ Held(inv'[i].settle.v, inv'[i].handlerResult, blobStore')
          /\ Delivers(i) => inv'[i].promise = Fulfilled(inv[i].settle.v)]_vars

\* The host task of invocation i lifted a payload: its handler fulfilled with
\* one and the reference is queued or was dequeued.
Lifted(i) ==
    /\ inv[i].outcome = "fulfilled" /\ IsPayload(inv[i].handlerResult)
    /\ inv[i].st \in {"queued", "settled", "dropped"}
RefId(i) == inv[i].settle.v.m["id"]
LiftedBy(e) == {i \in DOMAIN inv : inv[i].exec = e /\ Lifted(i)}

\* C18: the payloads lifted for the tool calls of one execution have pairwise
\* different ids (also when they are the same payload), and while the
\* execution runs the blob table holds the entry of each of them.
C18_BlobIdsUnique ==
    \A e \in Execs :
        /\ \A i, j \in LiftedBy(e) : i # j => RefId(i) # RefId(j)
        /\ ex[e].st = "polling" =>
              \A i \in LiftedBy(e) :
                  EntryFor(inv[i].settle.v, inv[i].handlerResult) \in Range(blobStore)

IsRef(w) == w.t = "object" /\ Has(w, "type") /\ w.m["type"] = Str(<<"blob_ref">>)
\* Invocation j is the guest's tool('get_blob', {id}) for the reference that
\* invocation i delivered, in the same execution.
ReadsBack(j, i) ==
    /\ inv[i].exec = inv[j].exec /\ i < j
    /\ Lifted(i) /\ inv[i].st = "settled"
    /\ inv[j].toolName = "get_blob" /\ inv[j].st = "settled"
    /\ inv[j].guestArgs = Obj(Field("id", RefId(i)))
MissingArgs == Obj(Field("id", Str(<<"nonexistent">>)))

\* C19: get_blob for the id of a reference that was delivered to the guest
\* resolves with {id, data, mimeType} holding the data of the payload the
\* reference replaced, and the ExecuteResult of the execution lists that
\* blob; get_blob for an id that is not in the table resolves with
\* {error: "Blob not found: <id>"}.
C19_BlobRetrieval ==
    \A j \in DOMAIN inv :
        /\ \A i \in DOMAIN inv : ReadsBack(j, i) =>
              LET b == EntryFor(inv[i].settle.v, inv[i].handlerResult)
              IN /\ inv[j].promise = Fulfilled(BlobValue(b))
                 /\ ex[inv[j].exec].st = "returned" => b \in Range(ex[inv[j].exec].result.blobs)
        /\ inv[j].toolName = "get_blob" /\ inv[j].guestArgs = MissingArgs
              /\ inv[j].st = "settled" =>
              inv[j].promise = Fulfilled(Obj(Field("error",
                                   Str(<<"Blob not found: ", "nonexistent">>))))

\* The blobs lifted from the results of the tool calls that execution e issued.
OwnBlobs(e) == {EntryFor(inv[i].settle.v, inv[i].handlerResult) : i \in LiftedBy(e)}
IsBlobValue(v) == v.t = "object" /\ Has(v, "data")
\* What the host and the guest of execution e see of the table: the blobs of
\* its ExecuteResult and the blobs its get_blob calls resolved with.
SeesOwnBlobs(e) ==
    /\ ex[e].st = "returned" => Range(ex[e].result.blobs) \subseteq OwnBlobs(e)
    /\ \A j \in DOMAIN inv :
          /\ inv[j].exec = e /\ inv[j].toolName = "get_blob" /\ inv[j].st = "settled"
          /\ IsBlobValue(inv[j].promise.v)
          => \E b \in OwnBlobs(e) : inv[j].promise.v = BlobValue(b)
Starts(e) == ex[e].st = "idle" /\ ex'[e].st # "idle"

\* C20: the blob table is empty when an execution starts, and the blobs of an
\* execution's ExecuteResult and the blobs its get_blob calls resolve with are
\* blobs lifted from the results of its own tool calls, whenever the handlers
\* complete (so an execution none of whose tool results holds a payload
\* returns no blob).
C20_PerExecutionBlobs ==
    [][\A e \in Execs :
          /\ Starts(e) => blobStore' = <<>>
          /\ SeesOwnBlobs(e)']_vars

Outstanding(i) == inv[i].st = "running"
Returns(e) == ex[e].st # "returned" /\ ex'[e].st = "returned"
\* Invocation i of execution e takes a step of its host task or of its queued
\* resolution.
Advances(i, e) == i \in DOMAIN inv /\ inv[i].exec = e /\ inv'[i] # inv[i]

\* C21: the step in which an execution returns leaves the handlers that are
\* outstanding as they are, and every later step of one of its invocations
\* (the handler completing, its resolution being dequeued) leaves the
\* execution returned with the same ExecuteResult, changes neither
\* sandbox.store nor _prev, and settles no guest promise.
C21_AbandonedHandlers ==
    [][\A e \in Execs :
          /\ Returns(e) =>
                \A i \in DOMAIN inv : Outstanding(i) => inv'[i] = inv[i]
          /\ ex[e].st = "returned" =>
                /\ ex'[e].st = "returned" /\ ex'[e].result = ex[e].result
                /\ \A i \in DOMAIN inv : Advances(i, e) =>
                      /\ store' = store /\ prevResult' = prevResult
                      /\ inv'[i].promise = inv[i].promise]_vars
\* An execution returned its result while a handler was outstanding, and the
\* handler completed afterwards.
C21_Witness ==
    \E i \in DOMAIN inv :
        /\ ex[inv[i].exec].st = "returned" /\ ex[inv[i].exec].result.success
        /\ inv[i].late /\ inv[i].outcome = "fulfilled" /\ inv[i].st = "dropped"

Get(v, k) == IF Has(v, k) THEN v.m[k] ELSE Undefined
IsEntryOf(v, t) ==
    /\ v.t = "object" /\ DOMAIN v.m = {"name", "description"}
    /\ v.m["name"] = Str(<<t.name>>) /\ v.m["description"] = DescriptionOf(t)
IsSchemaOf(v, t) ==
    /\ v.t = "object" /\ DOMAIN v.m \subseteq {"name", "description", "inputSchema", "outputSchema"}
    /\ Get(v, "name") = Str(<<t.name>>) /\ Get(v, "description") = DescriptionOf(t)
    /\ Get(v, "inputSchema") = InputSchemaOf(t) /\ Get(v, "outputSchema") = OutputSchemaOf(t)
NameAsked(i) == Get(inv[i].guestArgs, "name")
Resolved(i) == inv[i].st = "settled"

\* C22: a settled tool('list_tools') is fulfilled with one {name, description}
\* entry for each tool of the registry as it was when the call was made, in
\* registry order; a settled tool('describe_tool', {name}) is fulfilled with
\* the schema record of a tool of that name when the registry held one at the
\* call, and with {error: "Tool not found: <name>"} when it held none.
C22_Introspection ==
    \A i \in DOMAIN inv : Resolved(i) =>
        /\ inv[i].toolName = "list_tools" =>
              LET v == inv[i].promise.v
                  reg == inv[i].registry
              IN /\ inv[i].promise.type = "fulfilled" /\ v.t = "array"
                 /\ DOMAIN v.m = {ToString(n - 1) : n \in DOMAIN reg}
                 /\ \A n \in DOMAIN reg : IsEntryOf(v.m[ToString(n - 1)], reg[n])
        /\ inv[i].toolName = "describe_tool" /\ NameAsked(i).t = "string" =>
              LET v == inv[i].promise.v
                  reg == inv[i].registry
                  n == NameAsked(i).p[1]
              IN /\ inv[i].promise.type = "fulfilled"
                 /\ IF \E k \in DOMAIN reg : reg[k].name = n
                    THEN \E k \in DOMAIN reg : reg[k].name = n /\ IsSchemaOf(v, reg[k])
                    ELSE v = Obj(Field("error", Str(<<"Tool not found: ", n>>)))

\* The host assigned sandbox.store and no execution has fulfilled since.
AssignedLast == hostSets > 0 /\ lastAssign = Len(fulfilled)

\* C23: sandbox.store changes only in a host assignment or in the fulfilment
\* of an execution, so it reads as the mapping M last assigned until an
\* execution fulfils; and an execution that starts while the store is a JSON
\* mapping M the host assigned finds in its guest store the keys and values of
\* M (and _prev), and no other key.
C23_HostAssignment ==
    [][/\ store' # store => hostSets' # hostSets \/ fulfilled' # fulfilled
       /\ \A e \in Execs :
             Starts(e) /\ AssignedLast /\ JsonRepresentable(store) =>
                 ex'[e].hydrated = DelProp(store.m, "_prev")]_vars

\* C24: every ExecuteResult returned has a blobs list; with success = true it
\* has result, the value the main promise fulfilled with, and an error only
\* as the truncation notice; with success = false it has an error that is a
\* message string and no result.
C24_ResultShape ==
    \A e \in Execs : ex[e].st = "returned" =>
        LET r == ex[e].result
        IN /\ "blobs" \in r.keys /\ "success" \in r.keys
           /\ r.success =>
                 /\ "result" \in r.keys
                 /\ r.result = Dump(ex[e].promiseState.v)
                 /\ "error" \in r.keys =>
                       /\ JsonLen(r.result) > opts.maxResultChars
                       /\ r.error = TruncatedMsg(JsonLen(r.result), opts.maxResultChars)
           /\ ~r.success =>
                 /\ r.keys = {"success", "error", "blobs"}
                 /\ r.errorType = "string" /\ r.error # <<>>

\* A name is embedded in a description when the text holds it.
Embeds(d, n) == \E k \in DOMAIN d : d[k] = n

\* The last registry call was a removeTool that returned.
Removed(n) == lastOp = [op |-> "removeTool", name |-> n, error |-> <<>>]

\* C25: once createSandbox has returned, and after every addTool and removeTool
\* that returned, execute.description embeds the name of every tool in the
\* registry, and after a removeTool that returned it does not embed the name
\* of the tool removed.
C25_DescriptionTracks ==
    phase = "ready" =>
        /\ \A k \in DOMAIN tools : Embeds(description, tools[k].name)
        /\ \A n \in RemoveNames : Removed(n) => ~Embeds(description, n)

\* What the VM of an execution holds: the guest's position, variables, store
\* and main promise.
GuestState(x) == <<x.gpc, x.gstore, x.acc, x.wait, x.promiseState, x.sidePending, x.sideEffect>>
\* A step that performs no operation on the VM of execution e: the guest does
\* not run, none of its guest promises is settled and no tool() call is made.
VMUntouched(e) ==
    /\ GuestState(ex'[e]) = GuestState(ex[e])
    /\ \A i \in DOMAIN inv : inv[i].exec = e => inv'[i].promise = inv[i].promise
    /\ \A i \in DOMAIN inv' : inv'[i].exec = e => i \in DOMAIN inv
Dequeues(e) == ex[e].resolveQueue # <<>> /\ ex'[e].resolveQueue = Tail(ex[e].resolveQueue)
Disposed(e) == ex[e].st \in {"returned", "threw"}

\* C26: a resolution dequeued once mainPromiseFulfilled or vmDisposed is set
\* performs no operation on the VM, and no step operates on the VM of an
\* execution that has left executeCode (by a result, the timeout among them,
\* or by an exception), its VM being disposed.
C26_DroppedResolutions ==
    [][\A e \in Execs :
          /\ (Dequeues(e) /\ (ex[e].mainPromiseFulfilled \/ ex[e].vmDisposed)) => VMUntouched(e)
          /\ Disposed(e) => VMUntouched(e)]_vars
\* A resolution was dropped after executeCode threw.
C26_Witness ==
    \E i \in DOMAIN inv : inv[i].st = "dropped" /\ ex[inv[i].exec].st = "threw"

\* The resolution of invocation i is queued, or leaves the queue, in the step.
Queues(i) == inv[i].st = "running" /\ inv'[i].st = "queued"
Leaves(i) == inv[i].st = "queued" /\ inv'[i].st # "queued"
Settles(i) == inv[i].promise.type = "pending" /\ inv'[i].promise.type # "pending"

\* C27: the resolutions of one execution run in the order in which they were
\* queued and one at a time: a resolution joins the queue of its execution at
\* the end, the one that runs is the one at the head, it is the only guest
\* promise settled in its step, and the guest's jobs it pumps run in the same
\* step, before the next resolution is taken.
C27_FifoResolutions ==
    [][\A i \in DOMAIN inv :
          LET q == ex[inv[i].exec].resolveQueue
              r == ex'[inv[i].exec].resolveQueue
          IN /\ Queues(i) => r = Append(q, i)
             /\ Leaves(i) => q # <<>> /\ i = Head(q) /\ r = Tail(q)
             /\ Settles(i) =>
                   /\ Leaves(i)
                   /\ \A j \in DOMAIN inv : Settles(j) => j = i
                   /\ ex'[inv[i].exec].wait.mode # "job"]_vars
\* Two calls of one execution were settled in the order their resolutions
\* were queued, the call issued second before the call issued first.
C27_Witness ==
    \E i, j \in DOMAIN inv :
        /\ i < j /\ inv[i].exec = inv[j].exec
        /\ inv[j].ahead = 0 /\ inv[i].ahead = 1
        /\ inv[j].st = "settled" /\ inv[i].st = "settled"

OutcomeCallbacks(i) == inv[i].nSuccess + inv[i].nError
GuestSettled(i) == inv[i].promise.type # "pending"

\* C28: for every invocation, the handler is called only once onBeforeToolCall
\* has run and returned; onToolCallSuccess and onToolCallError are invoked only
\* once the handler has finished (or was short-circuited); onToolCallSuccess is
\* handed the payload as the handler left it, before blob lifting; and the
\* guest promise is settled only after all of these, the resolution having
\* been queued.
C28_CallbackOrdering ==
    \A i \in DOMAIN inv :
        /\ inv[i].handlerCalls > 0 =>
              inv[i].nBefore = Invoked /\ inv[i].before \in {"none", "args"}
        /\ OutcomeCallbacks(i) > 0 =>
              IF inv[i].handlerCalls > 0 THEN inv[i].outcome # "none"
              ELSE inv[i].before = "returnValue"
        /\ inv[i].nSuccess > 0 =>
              inv[i].successSaw = IF inv[i].handlerCalls > 0 THEN inv[i].handlerResult
                                  ELSE ReturnValue
        /\ GuestSettled(i) =>
              /\ inv[i].st = "settled"
              /\ inv[i].found => inv[i].nBefore = Invoked
              /\ inv[i].handlerCalls > 0 =>
                    inv[i].outcome # "none" /\ OutcomeCallbacks(i) >= Invoked
\* A handler returned an image after onBeforeToolCall ran, onToolCallSuccess
\* was handed the image itself, and the guest promise was then fulfilled with
\* the reference.
C28_Witness ==
    \E i \in DOMAIN inv :
        /\ inv[i].nBefore = 1 /\ inv[i].handlerCalls = 1 /\ inv[i].outcome = "fulfilled"
        /\ inv[i].nSuccess = 1 /\ inv[i].successSaw = Image
        /\ inv[i].promise.type = "fulfilled" /\ IsRefTo(inv[i].promise.v, Image)

\* An execution has settled: execute.handler returned its result.
SomeSettled == \E e \in Execs : ex[e].st = "returned"

\* C29: once an execution has settled, sandbox.store has no own key _prev,
\* whatever the executions and the host's assignments to sandbox.store were.
C29_NoPrevRetained == SomeSettled => ~Has(store, "_prev")

InFlight(e) == ex[e].st = "polling"
\* The store as the last fulfilled execution left it; the empty mapping of
\* createSandbox when none has fulfilled.
LastCompleted ==
    IF fulfilled = <<>> THEN EmptyObj ELSE Obj(ReadBack(fulfilled[Len(fulfilled)]))

\* C30: sandbox.store reads as a mapping the host assigned when the host
\* assigned it last, and otherwise as the whole store the last fulfilled
\* execution left at its settlement, also while executions are in flight:
\* what an unsettled guest has written so far is not in it.
C30_StoreVisibility ==
    IF AssignedLast THEN store \in HostStores ELSE store = LastCompleted
\* An execution in flight has written store.k in the guest and sandbox.store
\* on the host has no key k.
C30_Witness ==
    \E e \in Execs :
        /\ InFlight(e) /\ "k" \in DOMAIN ex[e].gstore /\ ~AssignedLast
        /\ ~Has(store, "k")

\* The registry holds the built-in named b, after the tools of options.tools.
BuiltinPresent(b) ==
    \E k \in DOMAIN tools :
        /\ tools[k].builtin /\ tools[k].name = b
        /\ k > Len(optionsTools)

\* C31: once createSandbox has returned, whatever addTool and removeTool calls
\* follow, the registry holds the four built-ins describe_tool, list_tools,
\* sleep and get_blob, each after the tools given at construction.
C31_BuiltinsPresent ==
    phase = "ready" => \A n \in DOMAIN BuiltinNames : BuiltinPresent(BuiltinNames[n])

\* The names on the "Available tools:" line of a description.
ListedNames(d) == SubSeq(d, Len(UsagePreamble) + 1, Len(d) - Len(UsageExample))
IsSorted(ns) == \A i, j \in DOMAIN ns : i < j => Rank(ns[i]) <= Rank(ns[j])

\* C32 as stated: the names listed in execute.description are in sorted order.
C32_Original == phase = "ready" => IsSorted(ListedNames(description))

\* C32: the names listed in execute.description are the names of the tools of
\* the registry, in the order the tools have in the registry, whatever the
\* order in which tools were given at construction or added and removed later.
C32_ListOrder == phase = "ready" => ListedNames(description) = NamesOf(tools)
\* After an addTool and a removeTool that returned, the list is in the order
\* of the registry, which is not the sorted order.
C32_Witness ==
    /\ phase = "ready" /\ regOps = 2 /\ lastOp.op = "removeTool" /\ lastOp.error = <<>>
    /\ InRegistry("t1")
    /\ ListedNames(description) = NamesOf(tools)
    /\ ~IsSorted(ListedNames(description))

\* The resolution of invocation i carries a value that went through blob
\* lifting after its handler was called.
WasLifted(i) ==
    /\ inv[i].handlerCalls > 0 /\ inv[i].st \in {"queued", "settled", "dropped"}
    /\ inv[i].settle.kind = "resolve"
\* The host value that was handed to the extractor: the result onToolCallError
\* set, else the result the handler returned or onToolCallSuccess set.
RawOf(i) ==
    IF inv[i].error = "recover" THEN inv[i].recovered ELSE SuccessLeft(i)

Registered(reg, n) == \E k \in DOMAIN reg : reg[k].name = n
NotFoundSettle(i) == [kind |-> "reject", v |-> Str(<<"Tool not found: ", inv[i].toolName>>)]

\* C34 as stated: a tool() call for a name the registry did not hold when its
\* execution started queues the rejection "Tool not found: <name>".
C34_Original ==
    \A i \in DOMAIN inv :
        ~Registered(ex[inv[i].exec].startTools, inv[i].toolName) =>
            ~inv[i].found /\ inv[i].settle = NotFoundSettle(i)

\* C34: a tool() call finds its tool exactly when the registry holds the name
\* at the time the call is made: a tool added while the execution is in
\* flight is found by a call issued after the addTool, and a call issued while
\* the registry does not hold the name queues the rejection
\* "Tool not found: <name>", also when the tool is added afterwards.
C34_LiveLookup ==
    \A i \in DOMAIN inv :
        /\ inv[i].found <=> Registered(inv[i].registry, inv[i].toolName)
        /\ ~inv[i].found => inv[i].handlerCalls = 0 /\ inv[i].settle = NotFoundSettle(i)
        /\ inv[i].found => inv[i].handlerCalls = 1
\* A tool added while the execution was in flight was found by the call the
\* guest issued afterwards, and the guest promise was fulfilled.
C34_Witness ==
    \E i \in DOMAIN inv :
        /\ ~Registered(ex[inv[i].exec].startTools, inv[i].toolName)
        /\ inv[i].found /\ inv[i].promise.type = "fulfilled"

\* The promise capability of invocation i: its resolve and reject functions
\* are released when the guest promise is settled.
CapabilityReleased(i) == inv[i].promise.type # "pending"
LedgerClean(e) == ex[e].acquired = ex[e].released /\ ex[e].twice = {}

\* C35: when an execution has left executeCode, by a result or by an
\* exception, every handle it acquired was released, none twice, and the
\* promise capability of each of its tool calls was released.
C35_HandleDiscipline ==
    \A e \in Execs : Disposed(e) =>
        /\ LedgerClean(e)
        /\ \A i \in DOMAIN inv : inv[i].exec = e => CapabilityReleased(i)

WithinBudget(e) ==
    /\ ex[e].pollIterations <= opts.maxPollIterations
    /\ InFlight(e) => ex[e].pollIterations < opts.maxPollIterations

Fails(e) == ex[e].st = "returned" /\ ~ex[e].result.success
LastFulfilled == fulfilled[Len(fulfilled)]

\* C37: a step of an execution that is not its successful return (a compile
\* error, a rejection, a timeout, or a step on the way) leaves sandbox.store
\* and the previous result as they were, whatever the guest wrote to its store;
\* the previous result is the value returned by the execution that fulfilled last.
C37_FailedChangesNothing ==
    [][/\ \A e \in Execs :
             (ex'[e] # ex[e] /\ ~(ex'[e].st = "returned" /\ ex'[e].result.success))
                 => store' = store /\ prevResult' = prevResult
       /\ fulfilled' # <<>>
             => prevResult' = ex'[fulfilled'[Len(fulfilled')]].result.result]_vars

\* An execution that wrote to its store failed after another had fulfilled,
\* and the host's store is the one the fulfilled execution read back.
C37_Witness ==
    \E e \in Execs :
       /\ Fails(e)
       /\ ex[e].gstore # ex[e].hydrated
       /\ fulfilled # <<>>
       /\ LastFulfilled < e
       /\ store = Obj(ex[LastFulfilled].readBack)
       /\ store.m # ex[e].gstore
       /\ prevResult = ex[LastFulfilled].result.result

OutcomeKnown(i) == ShortCircuited(i) \/ HandlerFulfilled(i) \/ HandlerRejected(i)

\* C38: for an invocation of a registered tool whose onBeforeToolCall did not
\* throw, at most one of onToolCallSuccess and onToolCallError has been invoked,
\* at most once; once the handler fulfilled or the call was short-circuited it
\* is onToolCallSuccess, once, and never onToolCallError; once the handler
\* rejected it is onToolCallError, once, and never onToolCallSuccess.
C38_OneOutcomeCallback ==
    \A i \in DOMAIN inv : inv[i].found /\ inv[i].before # "throw" =>
        /\ inv[i].nSuccess + inv[i].nError <= 1
        /\ OutcomeKnown(i) => inv[i].nSuccess + inv[i].nError = 1
        /\ ShortCircuited(i) \/ HandlerFulfilled(i) => inv[i].nSuccess = 1
        /\ HandlerRejected(i) => inv[i].nError = 1

Resolution(i) ==
    IF inv[i].settle.kind = "resolve" THEN Fulfilled(Materialise(inv[i].settle.v))
    ELSE Rejected(inv[i].settle.v)
MainPending(e) == ex[e].promiseState.type = "pending" /\ ~ex[e].vmDisposed

\* C39: a guest promise that is settled never changes again; it is settled
\* only in the step that takes the resolution of its invocation off the queue,
\* with the value or the error that resolution holds; an invocation joins the
\* queue at most once; and the resolution that leaves the queue settles the
\* promise exactly when the main promise is pending and the VM is not
\* disposed, the promise staying pending otherwise.
C39_SingleSettlement ==
    [][\A i \in DOMAIN inv :
          /\ GuestSettled(i) => inv'[i].promise = inv[i].promise
          /\ Settles(i) => Leaves(i) /\ inv'[i].promise = Resolution(i)
          /\ inv[i].st # "running" => inv'[i].st # "running"
          /\ inv[i].st # "queued" /\ inv'[i].st = "queued" => Queues(i)
          /\ Leaves(i) => (Settles(i) <=> MainPending(inv[i].exec))]_vars

Overlaps(e) == \E d \in Execs : d # e /\ InFlight(d)
AllFinished == \A e \in Execs : ~InFlight(e)

\* C40: sandbox.store and the previous result change only in a host
\* assignment (the store alone) or in the step in which an execution fulfils
\* (to the store it read back and the value it returned); once no execution is
\* in flight and one has fulfilled since the last host assignment, the store is
\* the one read back by the execution that fulfilled last; and an execution
\* that starts while another is in flight finds in its guest store the store
\* as it is at that moment, which no step of the host or of another execution
\* changes afterwards.
C40_LastSettlementWins ==
    [][/\ store' # store \/ prevResult' # prevResult =>
             \/ hostSets' = hostSets + 1 /\ prevResult' = prevResult
             \/ \E e \in Execs :
                   /\ fulfilled' = Append(fulfilled, e)
                   /\ store' = Obj(ex'[e].readBack)
                   /\ prevResult' = ex'[e].result.result
       /\ AllFinished' /\ fulfilled' # <<>> /\ ~AssignedLast' =>
             store' = Obj(ex'[fulfilled'[Len(fulfilled')]].readBack)
       /\ \A e \in Execs :
             /\ Starts(e) /\ Overlaps(e) /\ ex'[e].st # "threw" =>
                   ex'[e].hydrated = DelProp(store.m, "_prev")
             /\ InFlight(e) /\ ex'[e] = ex[e] =>
                   ex'[e].gstore = ex[e].gstore /\ ex'[e].hydrated = ex[e].hydrated]_vars

====
